---- MODULE Spec2Model ----
(***************************************************************************)
(* iFetch: differential chunk sync and parallel download engine.          *)
(*                                                                         *)
(* The specifications of this module:                                      *)
(*   SpecDiff     FileChunker.get_file_chunks / find_changed_chunks        *)
(*   SpecSession  one DownloadManager.download_drive_item execution        *)
(*   SpecResync   that execution followed by a second one                  *)
(*   SpecPair     that execution with and without a sidecar                *)
(*   SpecWalk     DownloadManager.download / process_item_parallel         *)
(*   SpecWalkFair SpecWalk under fair scheduling                           *)
(* Each specification leaves the variables of the others unchanged.        *)
(***************************************************************************)
EXTENDS Integers, Sequences, FiniteSets, TLC

VARIABLES
    \* ---- SpecDiff: chunker.py
    d_file,             \* the local file: [exists, data]
    d_response,         \* the remote response: content, content_length, chunk_size, raw cursor
    existing_chunks,    \* result of get_file_chunks
    changed_ranges,     \* result of find_changed_chunks
    d_pc,               \* "init" -> "indexed" -> "diffed"
    \* ---- SpecSession: DownloadManager.download_drive_item(item, local_path)
    item,               \* the remote item: has_name, content, content_length, chunk_size
    local_file,         \* the file at local_path
    temp_file,          \* the file at local_path + ".temp", as it is on disk
    out_buf,            \* bytes written to out_file that are still in its buffer
    resp,               \* the response whose body line 134 is reading: [open, sent]
    status_file,        \* the sidecar at local_path + ".download": [kind, position]
    current_position,   \* tracker.current_position
    total_size,         \* content-length read at line 175
    plan,               \* changed_ranges of the session
    range_idx,          \* index in plan of the range being fetched
    retries,            \* retries of _stream_download_range for that range
    pc,                 \* position of the session in download_drive_item
    ret,                \* "none", "true", "false" or "raised"
    pre_local,          \* history: local_file when the session began
    fail_cause,         \* history: the step whose error led to the except block
    status_at_fail,     \* history: the sidecar when that error was raised
    run,                \* which execution for local_path this is: 1, or 2 after a rerun
    attempts,           \* history: requests made by the current _stream_download_range call
    waited,             \* history: time units that call has spent in time.sleep
    all_exact,          \* history: every accepted response carried exactly its range
    fetched,            \* history: the ranges whose _stream_download_range call returned
    saved,              \* history: the positions passed to tracker.save_status
    scenario,           \* SpecPair: how the remote and the filesystem behave in both runs
    first,              \* SpecPair: what the run with the sidecar ended with
    \* ---- SpecWalk: DownloadManager.download and process_item_parallel
    tree,               \* the remote tree under the resolved root (never changes)
    max_workers,        \* self.max_workers
    task,               \* position of each node's process_item_parallel call
    active_downloads,   \* self._active_downloads
    root_fs,            \* what is at the local root path: "absent", "dir", "file"
    main_pc,            \* position of download(): "walk", "reported", "raised"
    saw_active,         \* history: the call found its path in _active_downloads
    work,               \* each call's session: ranges left, retries, temp_path, pending
    outcomes,           \* history: the statuses of the outcomes each call has built
    report,             \* the summary generate_summary_report returned to download()
    \* ---- shared by SpecSession and SpecWalk
    download_results    \* self.download_results

diffVars == <<d_file, d_response, existing_chunks, changed_ranges, d_pc>>

\* the variables of the paired runs
pairVars == <<scenario, first>>

\* the history variables of a session
histVars == <<run, attempts, waited, all_exact, fetched, saved>>

sessionVars == <<item, local_file, temp_file, out_buf, resp, status_file, current_position, total_size,
                 plan, range_idx, retries, pc, ret, pre_local, fail_cause, status_at_fail,
                 run, attempts, waited, all_exact, fetched, saved, scenario, first>>

walkVars == <<tree, max_workers, task, work, active_downloads, root_fs, main_pc,
              saw_active, outcomes, report>>

vars == <<diffVars, sessionVars, walkVars, download_results>>

(***************************************************************************)
(* Bounds of the model.                                                    *)
(***************************************************************************)
MaxLen == 3        \* longest file, in bytes
MaxChunk == 2      \* largest chunk_size tried
MaxNodes == 5      \* most items of a remote tree, the root included
MaxWorkers == 2    \* largest max_workers tried
MaxRaceNodes == 3  \* most items of a tree walked step by step of every session
MaxFairWorkers == 1  \* largest max_workers tried under fair scheduling
MaxRanges == 1     \* most ranges of a plan in the tree walk

Bytes == {0, 1}    \* byte values; 0 is also the NUL of a zero-filled file

Min(a, b) == IF a < b THEN a ELSE b
Max(a, b) == IF a > b THEN a ELSE b

RECURSIVE SeqsUpTo(_)
SeqsUpTo(n) ==
    IF n = 0 THEN {<<>>}
    ELSE LET S == SeqsUpTo(n - 1)
         IN  S \cup {Append(s, b) : s \in {t \in S : Len(t) = n - 1}, b \in Bytes}

Contents == SeqsUpTo(MaxLen)

\* a path of the local filesystem: no file there, or a file with its bytes
Absent == [exists |-> FALSE, data |-> <<>>]
File(content) == [exists |-> TRUE, data |-> content]
LocalFiles == {Absent} \cup {File(c) : c \in Contents}
ChunkSizes == 1..MaxChunk

(***************************************************************************)
(* hashlib.md5(chunk_data).hexdigest(): a digest that is equal exactly for *)
(* equal byte strings over the bounded contents (bijective numeration, so  *)
(* strings of different lengths never collide).                            *)
(***************************************************************************)
RECURSIVE md5(_)
md5(data) ==
    IF data = <<>> THEN 0
    ELSE (Head(data) + 1) + (Cardinality(Bytes) + 1) * md5(Tail(data))

\* f.read(n) at offset position (0-based) of a byte string
ReadAt(content, position, n) ==
    SubSeq(content, position + 1, Min(position + n, Len(content)))

(***************************************************************************)
(* FileChunker.get_file_chunks: the dictionary hash -> (start, end); a     *)
(* later window with the same hash overwrites the earlier entry.           *)
(***************************************************************************)
RECURSIVE ChunkLoop(_, _, _, _)
ChunkLoop(content, chunk_size, position, chunks) ==
    LET chunk_data == ReadAt(content, position, chunk_size)
    IN  IF chunk_data = <<>> THEN chunks
        ELSE LET chunk_hash == md5(chunk_data)
                 size == Len(chunk_data)
             IN  ChunkLoop(content, chunk_size, position + size,
                           (chunk_hash :> <<position, position + size - 1>>) @@ chunks)

get_file_chunks(file, chunk_size) ==
    IF ~file.exists \/ Len(file.data) = 0 THEN <<>>
    ELSE ChunkLoop(file.data, chunk_size, 0, <<>>)

(***************************************************************************)
(* FileChunker.find_changed_chunks.                                        *)
(***************************************************************************)
\* the scan loop of lines 77-89: windows whose hash is not a key of the map
RECURSIVE ScanLoop(_, _, _, _, _, _)
ScanLoop(content, content_length, chunk_size, existing, position, ranges) ==
    IF ~(position < content_length) THEN ranges
    ELSE LET chunk_data == ReadAt(content, position, chunk_size)
         IN  IF chunk_data = <<>> THEN ranges
             ELSE LET chunk_hash == md5(chunk_data)
                      size == Len(chunk_data)
                      next == IF chunk_hash \notin DOMAIN existing
                              THEN Append(ranges, <<position, position + size - 1>>)
                              ELSE ranges
                  IN  ScanLoop(content, content_length, chunk_size, existing,
                               position + size, next)

\* list.sort() on (start, end) tuples: insertion into ascending tuple order
TupleLess(a, b) == a[1] < b[1] \/ (a[1] = b[1] /\ a[2] < b[2])

RECURSIVE InsertSorted(_, _)
InsertSorted(r, s) ==
    IF s = <<>> THEN <<r>>
    ELSE IF TupleLess(r, Head(s)) THEN <<r>> \o s
    ELSE <<Head(s)>> \o InsertSorted(r, Tail(s))

RECURSIVE SortRanges(_)
SortRanges(s) == IF s = <<>> THEN <<>> ELSE InsertSorted(Head(s), SortRanges(Tail(s)))

\* the merge loop of lines 97-106
RECURSIVE MergeLoop(_, _)
MergeLoop(optimized, rest) ==
    IF rest = <<>> THEN optimized
    ELSE LET cur == Head(rest)
             prev == optimized[Len(optimized)]
         IN  IF cur[1] <= prev[2] + 1
             THEN MergeLoop([optimized EXCEPT ![Len(optimized)] =
                                <<prev[1], Max(prev[2], cur[2])>>], Tail(rest))
             ELSE MergeLoop(Append(optimized, cur), Tail(rest))

\* MergeRanges that sorts and does not coalesce
MergeRangesSortOnly(ranges) == SortRanges(ranges)

MergeRanges(ranges) ==
    IF ranges # <<>>
    THEN LET sorted == SortRanges(ranges) IN MergeLoop(<<Head(sorted)>>, Tail(sorted))
    ELSE <<>>

find_changed_chunks(content, content_length, chunk_size, existing) ==
    IF DOMAIN existing = {}
    THEN IF content_length > 0 THEN << <<0, content_length - 1>> >> ELSE <<>>
    ELSE MergeRanges(ScanLoop(content, content_length, chunk_size, existing, 0, <<>>))

\* response.raw after the scan loop of lines 76-89, which starts at offset 0:
\* each read moves the cursor by the bytes it returned
RECURSIVE ScanCursor(_, _, _, _)
ScanCursor(content, content_length, chunk_size, position) ==
    IF ~(position < content_length) THEN position
    ELSE LET chunk_data == ReadAt(content, position, chunk_size)
         IN  IF chunk_data = <<>> THEN position
             ELSE ScanCursor(content, content_length, chunk_size, position + Len(chunk_data))

\* response.raw.seek(offset): the cursor moves to offset wherever it was
Seek(cursor, offset) == offset

\* CursorAfterDiff without the seek of line 92
CursorAfterDiffNoRestore(cursor, content, content_length, chunk_size, existing) ==
    IF DOMAIN existing = {} THEN cursor
    ELSE ScanCursor(content, content_length, chunk_size, Seek(cursor, 0))

\* where find_changed_chunks leaves response.raw: untouched for an empty map
\* (lines 61-65); otherwise tell() (line 70), seek(0) and the reads of the
\* loop (lines 76-89), then seek(current_pos) (line 92)
CursorAfterDiff(cursor, content, content_length, chunk_size, existing) ==
    IF DOMAIN existing = {} THEN cursor
    ELSE LET current_pos == cursor
             at_start == Seek(cursor, 0)
             after_scan == ScanCursor(content, content_length, chunk_size, at_start)
         IN  Seek(after_scan, current_pos)

\* generate_summary_report (lines 365-367) over a list of outcomes
CountStatus(results, status) ==
    Cardinality({i \in 1..Len(results) : results[i].status = status})

generate_summary_report(results) ==
    [total_files |-> Len(results),
     successful |-> CountStatus(results, "completed"),
     failed |-> CountStatus(results, "failed")]

\* download() has not reached line 412
NoReport == [total_files |-> 0, successful |-> 0, failed |-> 0]

\* the values SpecWalk's variables keep under the other specifications
WalkIdle ==
    /\ tree = [n |-> 0, parent |-> <<>>, kind |-> <<>>, bad |-> 0, dup |-> 0,
               rel |-> "same"]
    /\ max_workers = 1
    /\ task = <<>>
    /\ active_downloads = {}
    /\ root_fs = "absent"
    /\ main_pc = "idle"
    /\ work = <<>>
    /\ saw_active = <<>>
    /\ outcomes = <<>>
    /\ report = NoReport

\* int(response.headers.get('content-length', 0)), line 175 and
\* chunker.py:62,67: a response without the header has content_length 0
content_length(response) == response.content_length

(***************************************************************************)
(* State of one download_drive_item execution.                             *)
(***************************************************************************)
max_retries == 3

\* out_file, the staging file opened "r+b" at line 212, is a buffered file
\* object: of the bytes write() has accepted, a tail may still be in the
\* buffer; seek() and close() write it out.  NoBuf: nothing is pending.
NoBuf == [start |-> 0, data |-> <<>>]

\* resp of _stream_download_range while iter_content is read (lines 134-137):
\* sent is the part of the body out_file.write has been given so far.
\* NoResp: no response is being read.
NoResp == [open |-> FALSE, sent |-> <<>>]
Reading(sent) == [open |-> TRUE, sent |-> sent]

NoStatus == [kind |-> "absent", position |-> 0]
SavedStatus(position) == [kind |-> "position", position |-> position]

\* the sidecar states _load_status meets (tracker.py:22-29): no file, a JSON
\* object with a position, a file that cannot be read (OSError), text that is
\* not JSON (JSONDecodeError), bytes that are not UTF-8 (UnicodeDecodeError)
\* and JSON that is not an object (data.get raises AttributeError), the last
\* two being exceptions the except clause does not name
StatusFiles ==
    {NoStatus}
    \cup {SavedStatus(p) : p \in 0..MaxLen}
    \cup {[kind |-> k, position |-> 0] :
              k \in {"unreadable", "not_json", "not_utf8", "not_object"}}

\* the sidecars whose content makes _load_status raise
Unloadable == {"not_utf8", "not_object"}

\* no paired run: nothing recorded, no behaviour prescribed
NoFirst == [plan |-> <<>>, fetched |-> <<>>, local_file |-> Absent, results |-> <<>>,
            ret |-> "none"]

\* no paired run: no behaviour prescribed
NoScenario == [fault |-> "any", buffered |-> FALSE, handler |-> "unlinks", stale |-> Absent]

PairIdle ==
    /\ scenario = NoScenario
    /\ first = NoFirst

\* the values SpecSession's variables keep under the other specifications
SessionIdle ==
    /\ item = [has_name |-> TRUE, content |-> <<>>, content_length |-> 0, chunk_size |-> 1]
    /\ local_file = Absent
    /\ temp_file = Absent
    /\ out_buf = NoBuf
    /\ resp = NoResp
    /\ status_file = NoStatus
    /\ current_position = 0
    /\ total_size = 0
    /\ plan = <<>>
    /\ range_idx = 0
    /\ retries = 0
    /\ pc = "idle"
    /\ ret = "none"
    /\ pre_local = Absent
    /\ fail_cause = "none"
    /\ status_at_fail = NoStatus
    /\ run = 0
    /\ PairIdle
    /\ attempts = 0
    /\ waited = 0
    /\ all_exact = TRUE
    /\ fetched = <<>>
    /\ saved = <<>>

(***************************************************************************)
(* SpecDiff: the chunker applied to every bounded local/remote pair.       *)
(***************************************************************************)
\* the values SpecDiff's variables keep under the other specifications
DiffIdle ==
    /\ d_file = Absent
    /\ d_response = [content |-> <<>>, content_length |-> 0, chunk_size |-> 1, cursor |-> 0]
    /\ existing_chunks = <<>>
    /\ changed_ranges = <<>>
    /\ d_pc = "idle"

DiffInit ==
    /\ SessionIdle
    /\ WalkIdle
    /\ download_results = <<>>
    /\ d_file \in LocalFiles
    /\ d_response \in [content : Contents, content_length : 0..MaxLen, chunk_size : ChunkSizes,
                       cursor : 0..MaxLen]
    /\ d_response.content_length \in {0, Len(d_response.content)}
    /\ d_response.cursor <= Len(d_response.content)
    /\ existing_chunks = <<>>
    /\ changed_ranges = <<>>
    /\ d_pc = "init"

IndexLocal ==
    /\ d_pc = "init"
    /\ existing_chunks' = get_file_chunks(d_file, d_response.chunk_size)
    /\ d_pc' = "indexed"
    /\ UNCHANGED <<d_file, d_response, changed_ranges, sessionVars, walkVars, download_results>>

DiffRemote ==
    /\ d_pc = "indexed"
    /\ changed_ranges' = find_changed_chunks(d_response.content, content_length(d_response),
                                             d_response.chunk_size, existing_chunks)
    /\ d_response' = [d_response EXCEPT !.cursor =
                         CursorAfterDiff(@, d_response.content, content_length(d_response),
                                         d_response.chunk_size, existing_chunks)]
    /\ d_pc' = "diffed"
    /\ UNCHANGED <<d_file, existing_chunks, sessionVars, walkVars, download_results>>

DiffNext == IndexLocal \/ DiffRemote

SpecDiff == DiffInit /\ [][DiffNext]_vars


(***************************************************************************)
(* SpecSession: one execution of download_drive_item(item, local_path).    *)
(***************************************************************************)
local_path == "local_path"

\* hashlib.sha256 over the whole file (calculate_checksum, lines 111-118);
\* EmptyChecksum is the "" a DownloadStatus has when none was computed
EmptyChecksum == 0
calculate_checksum(file) == md5(file.data) + 1

\* models.DownloadStatus
DownloadStatus(path, size, downloaded, checksum, status, changes) ==
    [path |-> path, size |-> size, downloaded |-> downloaded, checksum |-> checksum,
     status |-> status, changes |-> changes]

\* sum(end - start + 1 for start, end in changed_ranges), line 199
RECURSIVE SumRanges(_)
SumRanges(rs) == IF rs = <<>> THEN 0 ELSE (Head(rs)[2] - Head(rs)[1] + 1) + SumRanges(Tail(rs))

ZeroFilled(n) == [i \in 1..n |-> 0]

\* out_file.seek(start); out_file.write(body): bytes past the end extend the
\* file, a gap before start reads as zeros, an empty body writes nothing
WriteAt(data, start, body) ==
    IF body = <<>> THEN data
    ELSE LET head == IF Len(data) >= start THEN SubSeq(data, 1, start)
                     ELSE data \o ZeroFilled(start - Len(data))
             tail == SubSeq(data, start + Len(body) + 1, Len(data))
         IN  head \o body \o tail

\* the bytes a server that honours "Range: bytes=start-end" sends
RangeBody(content, start, end) == SubSeq(content, start + 1, Min(end + 1, Len(content)))

\* the staging file once the pending bytes of out_file are written out
\* (out_file.seek at line 133, the close at the end of the with block of
\* line 212)
Flushed(data, buf) == WriteAt(data, buf.start, buf.data)

\* the staging file when writing out the pending bytes stops with an OSError
PartlyFlushed(data, buf) ==
    {WriteAt(data, buf.start, SubSeq(buf.data, 1, j)) : j \in 0..Len(buf.data)}

\* the buffer when, of the bytes of body written at offset start, the first
\* k have reached the file
Pending(start, body, k) ==
    IF k = Len(body) THEN NoBuf
    ELSE [start |-> start + k, data |-> SubSeq(body, k + 1, Len(body))]

\* DownloadTracker._load_status: the position loaded from the sidecar
LoadedPosition(sf) == IF sf.kind = "position" THEN sf.position ELSE 0

\* the sessions tried: the response states the length of its content or has
\* no content-length header; the destination is shorter than the longest
\* content, the chunk size below the largest
MaxDest == MaxLen - 1
MaxSessionChunk == MaxChunk - 1
Destinations == {Absent} \cup {File(c) : c \in SeqsUpTo(MaxDest)}
SessionChunkSizes == 1..MaxSessionChunk
SessionItems ==
    {i \in [has_name : BOOLEAN, content : Contents, content_length : 0..MaxLen,
            chunk_size : SessionChunkSizes] :
        i.content_length \in {0, Len(i.content)}}

\* one longer remote file, of which every other byte is the byte the
\* destination holds there: with chunk size 1 its plan has three ranges
LongLen == MaxLen + 2
LongItem ==
    [has_name |-> TRUE, content |-> [i \in 1..LongLen |-> i % 2],
     content_length |-> LongLen, chunk_size |-> 1]
LongDest == File(ZeroFilled(LongLen))

\* the staging file a session finds: none, or one an earlier session for
\* the path left behind (lines 226-233 return without unlinking it, line 270
\* can fail to unlink it)
StaleFiles == {Absent, File(<<>>), File(<<1>>)}

SessionStart ==
    /\ DiffIdle
    /\ WalkIdle
    /\ \/ item \in SessionItems /\ local_file \in Destinations
       \/ item = LongItem /\ local_file = LongDest
    /\ temp_file \in StaleFiles
    /\ out_buf = NoBuf
    /\ resp = NoResp
    /\ status_file \in StatusFiles
    /\ current_position = 0
    /\ total_size = 0
    /\ plan = <<>>
    /\ range_idx = 0
    /\ retries = 0
    /\ pc = "start"
    /\ ret = "none"
    /\ pre_local = local_file
    /\ fail_cause = "none"
    /\ status_at_fail = NoStatus
    /\ run = 1
    /\ attempts = 0
    /\ waited = 0
    /\ all_exact = TRUE
    /\ fetched = <<>>
    /\ saved = <<>>
    /\ download_results = <<>>

\* a sidecar found at the start is one an interrupted first download left:
\* there is no destination yet, and a position it holds is the least or the
\* greatest one (SpecPair starts from every destination, with and without
\* an item name)
SessionInit ==
    /\ SessionStart
    /\ PairIdle
    /\ status_file.kind = "position" => status_file.position \in {0, MaxLen}
    /\ status_file.kind # "absent" => ~local_file.exists

\* lines 161-166: an item without name or open is logged and refused
InvalidItem ==
    /\ pc = "start"
    /\ ~item.has_name
    /\ pc' = "returned"
    /\ ret' = "false"
    /\ UNCHANGED <<item, local_file, temp_file, out_buf, resp, status_file, current_position, total_size,
                   plan, range_idx, retries, pre_local, fail_cause, status_at_fail,
                   download_results,
                   histVars, pairVars, diffVars, walkVars>>

\* line 168, DownloadTracker(local_path): outside the try block, so what
\* _load_status does not catch leaves download_drive_item as an exception:
\* the OSError of status_path.exists() (tracker.py:22, before the try), and
\* what open, json.load and data.get raise that is neither JSONDecodeError
\* nor OSError
LoadTracker ==
    /\ pc = "start"
    /\ item.has_name
    /\ \E exists_ok \in BOOLEAN :
          IF ~exists_ok \/ status_file.kind \in Unloadable
          THEN /\ pc' = "raised"
               /\ ret' = "raised"
               /\ UNCHANGED current_position
          ELSE /\ pc' = "open"
               /\ current_position' = LoadedPosition(status_file)
               /\ UNCHANGED ret
    /\ UNCHANGED <<item, local_file, temp_file, out_buf, resp, status_file, total_size, plan, range_idx,
                   retries, pre_local, fail_cause, status_at_fail, download_results,
                   histVars, pairVars, diffVars, walkVars>>

\* an exception inside the try block: control moves to line 261
Raise(cause) ==
    /\ pc' = "except"
    /\ fail_cause' = cause
    /\ status_at_fail' = status_file

\* lines 175-177: the response is open and content-length is read, then the
\* chunker raises: response.raw.read fails in find_changed_chunks, or the
\* local file cannot be read in get_file_chunks
DiffFails ==
    /\ pc = "open"
    /\ total_size' = content_length(item)
    /\ Raise("diff")
    /\ UNCHANGED <<item, local_file, temp_file, out_buf, resp, status_file, current_position,
                   plan, range_idx, retries, ret, pre_local, download_results,
                   histVars, pairVars, diffVars, walkVars>>

\* line 174: item.open raises (remote item unreadable)
OpenFails ==
    /\ pc = "open"
    /\ Raise("open")
    /\ UNCHANGED <<item, local_file, temp_file, out_buf, resp, status_file, current_position, total_size,
                   plan, range_idx, retries, ret, pre_local, download_results,
                   histVars, pairVars, diffVars, walkVars>>

\* OpenAndDiff that resumes: ranges that end before the loaded position are
\* dropped from the plan
OpenAndDiffResumes ==
    /\ pc = "open"
    /\ total_size' = content_length(item)
    /\ plan' = SelectSeq(find_changed_chunks(item.content, content_length(item), item.chunk_size,
                                             get_file_chunks(local_file, item.chunk_size)),
                         LAMBDA r : r[2] >= current_position)
    /\ pc' = IF plan' = <<>> THEN "unchanged" ELSE "stage"
    /\ UNCHANGED <<item, local_file, temp_file, out_buf, resp, status_file, current_position, range_idx,
                   retries, ret, pre_local, fail_cause, status_at_fail, download_results,
                   histVars, pairVars, diffVars, walkVars>>

\* lines 174-177: open the response, read content-length, index the local
\* file and compute the changed ranges
OpenAndDiff ==
    /\ pc = "open"
    /\ total_size' = content_length(item)
    /\ plan' = find_changed_chunks(item.content, content_length(item), item.chunk_size,
                                   get_file_chunks(local_file, item.chunk_size))
    /\ pc' = IF plan' = <<>> THEN "unchanged" ELSE "stage"
    /\ UNCHANGED <<item, local_file, temp_file, out_buf, resp, status_file, current_position, range_idx,
                   retries, ret, pre_local, fail_cause, status_at_fail, download_results,
                   histVars, pairVars, diffVars, walkVars>>

\* DownloadTracker.cleanup (tracker.py:45-52): the sidecar is unlinked if it
\* exists; an OSError of unlink is swallowed and the sidecar stays
AfterCleanup(sf) == IF sf.kind = "absent" THEN {sf} ELSE {NoStatus, sf}

\* DownloadTracker.save_status (tracker.py:31-43): the position is written;
\* an OSError is swallowed, raised by open (the sidecar is left as it was)
\* or while the JSON text is written out (the sidecar is left truncated)
AfterSave(sf, position) ==
    {SavedStatus(position), sf, [kind |-> "not_json", position |-> 0]}

\* lines 179-197: empty plan; local_path.exists(), stat() and the checksum
\* of a non-empty local file, or the OSError of one of them; one completed
\* outcome; tracker.cleanup(), whose status_path.exists() (tracker.py:47,
\* before the try) can raise into the except block after the outcome was
\* appended; return True
Unchanged ==
    /\ pc = "unchanged"
    /\ \E read_ok \in BOOLEAN :
          IF ~read_ok
          THEN /\ Raise("checksum_unchanged")
               /\ UNCHANGED <<download_results, status_file, ret>>
          ELSE /\ download_results' = Append(download_results,
                     DownloadStatus(local_path, total_size, 0,
                         IF local_file.exists /\ Len(local_file.data) > 0
                         THEN calculate_checksum(local_file) ELSE EmptyChecksum,
                         "completed", 0))
               /\ \E cleanup_ok \in BOOLEAN :
                     IF cleanup_ok
                     THEN /\ status_file' \in AfterCleanup(status_file)
                          /\ pc' = "returned"
                          /\ ret' = "true"
                          /\ UNCHANGED <<fail_cause, status_at_fail>>
                     ELSE /\ Raise("cleanup_unchanged")
                          /\ UNCHANGED <<status_file, ret>>
    /\ UNCHANGED <<item, local_file, temp_file, out_buf, resp, current_position, total_size, plan,
                   range_idx, retries, pre_local,
                   histVars, pairVars, diffVars, walkVars>>

\* the staging file lines 202-212 are making when an OSError stops them:
\* what was there before, nothing or a stale staging file (exists, mkdir or
\* the open of the copy failed), a copy of the first bytes of the
\* destination, or, with no destination, an empty file or the whole
\* zero-filled file (the open of line 212 failed)
StagedPartly(file, size, stale) ==
    {stale} \cup
    (IF file.exists THEN {File(SubSeq(file.data, 1, k)) : k \in 0..Len(file.data)}
     ELSE {File(<<>>), File(ZeroFilled(size))})

\* lines 199-220: the staging file is a copy of the destination, or a
\* zero-filled file of total_size bytes, written over whatever was at
\* temp_path and opened as out_file; a step that fails leaves what it found
\* or what it had created
Stage ==
    /\ pc = "stage"
    /\ \E copy_ok \in BOOLEAN :
          IF copy_ok
          THEN /\ temp_file' = IF local_file.exists THEN File(local_file.data)
                               ELSE File(ZeroFilled(total_size))
               /\ plan' = SortRanges(plan)
               /\ range_idx' = 1
               /\ retries' = 0
               /\ pc' = "ranges"
               /\ UNCHANGED <<fail_cause, status_at_fail>>
          ELSE /\ temp_file' \in StagedPartly(local_file, total_size, temp_file)
               /\ Raise("stage")
               /\ UNCHANGED <<plan, range_idx, retries>>
    /\ UNCHANGED <<item, local_file, out_buf, resp, status_file, current_position, total_size, ret,
                   pre_local, download_results,
                   histVars, pairVars, diffVars, walkVars>>


\* the range _stream_download_range is called for (line 223)
CurStart == plan[range_idx][1]
CurEnd == plan[range_idx][2]

\* bodies of a response the code accepts (raise_for_status passes and the
\* status is 200 or 206): the bytes of the range, fewer bytes (a prefix,
\* possibly empty), or the whole content when the server ignores Range
OkBodies(content, start, end) ==
    LET exact == RangeBody(content, start, end)
    IN  {SubSeq(exact, 1, k) : k \in 0..Len(exact)} \cup {content}

\* 2 ** retries, the argument of time.sleep at line 153
RECURSIVE Pow2(_)
Pow2(n) == IF n = 0 THEN 1 ELSE 2 * Pow2(n - 1)

\* what a response may have delivered when the connection breaks or
\* iter_content waits for more: nothing, or the first bytes of a body
SentBodies(content, start, end) ==
    UNION {{SubSeq(body, 1, k) : k \in 0..Len(body)} :
              body \in {RangeBody(content, start, end), content}}

IsPrefix(s, t) == Len(s) <= Len(t) /\ SubSeq(t, 1, Len(s)) = s

\* out_file.write(data_chunk), line 136, for the chunks that make up more,
\* written at offset at, where the pending bytes of buf end.  A chunk that
\* fits in the buffer is appended to the pending bytes; one that does not
\* makes write() write the pending bytes out first, and then the chunk goes
\* to the file or stays in the buffer.  So either nothing reaches the file,
\* or the pending bytes and the first j bytes of more do.
AfterWrite(data, buf, at, more) ==
    IF more = <<>> THEN {<<data, buf>>}
    ELSE {<<data, [start |-> IF buf.data = <<>> THEN at ELSE buf.start,
                   data |-> buf.data \o more]>>}
         \cup {<<WriteAt(Flushed(data, buf), at, SubSeq(more, 1, j)), Pending(at, more, j)>> :
                  j \in 0..Len(more)}

\* the staging file and the buffer the next write of the attempt meets: as
\* they are while the response is read; before that, out_file.seek(start) of
\* line 133 has written the pending bytes out
AttemptBase ==
    IF resp.open THEN <<temp_file.data, out_buf>>
    ELSE <<Flushed(temp_file.data, out_buf), NoBuf>>

\* the staging file and the buffer once the attempt has written sent in all
Receives(sent) ==
    AfterWrite(AttemptBase[1], AttemptBase[2], CurStart + Len(resp.sent),
               SubSeq(sent, Len(resp.sent) + 1, Len(sent)))

\* the request of line 130 is made when no response is being read
Requests == IF resp.open THEN attempts ELSE attempts + 1

\* FetchOk with the bytes written to the destination instead of the staging file
FetchOkInPlace ==
    /\ pc = "ranges"
    /\ retries < max_retries
    /\ \E body \in OkBodies(item.content, CurStart, CurEnd) :
          /\ IsPrefix(resp.sent, body)
          /\ \E left \in Receives(body) : /\ temp_file' = File(left[1])
                                          /\ out_buf' = left[2]
          /\ local_file' = File(WriteAt(local_file.data, CurStart, body))
          /\ all_exact' = (all_exact /\ body = RangeBody(item.content, CurStart, CurEnd))
    /\ resp' = NoResp
    /\ attempts' = Requests
    /\ fetched' = Append(fetched, <<CurStart, CurEnd>>)
    /\ pc' = "save"
    /\ UNCHANGED <<item, status_file, current_position, total_size, plan,
                   range_idx, retries, ret, pre_local, fail_cause, status_at_fail,
                   download_results, pairVars, run, waited, saved, diffVars, walkVars>>

\* lines 130-138: out_file.seek(start) writes out what is pending, the body
\* of an accepted response is written chunk by chunk from offset start, of
\* which a tail may stay in the buffer, and the call returns
FetchOk ==
    /\ pc = "ranges"
    /\ retries < max_retries
    /\ \E body \in OkBodies(item.content, CurStart, CurEnd) :
          /\ IsPrefix(resp.sent, body)
          /\ \E left \in Receives(body) : /\ temp_file' = File(left[1])
                                          /\ out_buf' = left[2]
          /\ all_exact' = (all_exact /\ body = RangeBody(item.content, CurStart, CurEnd))
    /\ resp' = NoResp
    /\ attempts' = Requests
    /\ fetched' = Append(fetched, <<CurStart, CurEnd>>)
    /\ pc' = "save"
    /\ UNCHANGED <<item, local_file, status_file, current_position, total_size, plan,
                   range_idx, retries, ret, pre_local, fail_cause, status_at_fail,
                   download_results, pairVars, run, waited, saved, diffVars, walkVars>>

\* lines 130-137 up to a moment when iter_content waits for the next chunk:
\* the chunks that have arrived are written, the call has not returned
FetchWaits ==
    /\ pc = "ranges"
    /\ retries < max_retries
    /\ \E sent \in SentBodies(item.content, CurStart, CurEnd) :
          /\ IsPrefix(resp.sent, sent)
          /\ resp.open => Len(sent) > Len(resp.sent)
          /\ \E left \in Receives(sent) : /\ temp_file' = File(left[1])
                                          /\ out_buf' = left[2]
          /\ resp' = Reading(sent)
    /\ attempts' = Requests
    /\ UNCHANGED <<item, local_file, status_file, current_position, total_size, plan,
                   range_idx, retries, pc, ret, pre_local, fail_cause, status_at_fail,
                   download_results, pairVars, run, waited, all_exact, fetched, saved,
                   diffVars, walkVars>>

\* what a failing attempt leaves of the staging file and of the buffer: both
\* untouched (the request failed before line 133), or what the bytes
\* delivered before the failure made of them
AttemptLeaves ==
    (IF resp.open THEN {} ELSE {<<temp_file.data, out_buf>>})
    \cup UNION {Receives(sent) : sent \in {w \in SentBodies(item.content, CurStart, CurEnd) :
                                              IsPrefix(resp.sent, w)}}

\* the staging file when an exception leaves the with block of line 212:
\* out_file is closed, and the pending bytes are written out in whole or,
\* the close failing too, in part
Closed(data, buf) == {File(d) : d \in PartlyFlushed(data, buf)}

\* the staging file after an OSError of out_file.seek or out_file.write
\* (lines 133, 136) has left the with block
AttemptClosed ==
    Closed(temp_file.data, out_buf)
    \cup UNION {Closed(left[1], left[2]) : left \in AttemptLeaves}

\* lines 127-153, an attempt that fails: a requests.RequestException
\* (network error, HTTP error status, connection broken after some bytes
\* were written) or another status code; retries += 1 and
\* time.sleep(2 ** retries), after the last attempt as after the others
FetchFails ==
    /\ pc = "ranges"
    /\ retries < max_retries
    /\ \E left \in AttemptLeaves : /\ temp_file' = File(left[1])
                                   /\ out_buf' = left[2]
    /\ resp' = NoResp
    /\ attempts' = Requests
    /\ retries' = retries + 1
    /\ waited' = waited + Pow2(retries')
    /\ UNCHANGED <<item, local_file, status_file, current_position, total_size, plan,
                   range_idx, pc, ret, pre_local, fail_cause, status_at_fail,
                   download_results, pairVars, run, all_exact, fetched, saved,
                   diffVars, walkVars>>

\* lines 127, 155-157: the loop condition fails after max_retries failed
\* attempts and the range's exception is raised; it leaves the with block
\* of line 212, which closes out_file
RangeFails ==
    /\ pc = "ranges"
    /\ retries >= max_retries
    /\ temp_file' \in Closed(temp_file.data, out_buf)
    /\ out_buf' = NoBuf
    /\ Raise("range")
    /\ UNCHANGED <<item, local_file, resp, status_file, current_position, total_size, plan,
                   range_idx, retries, ret, pre_local, download_results, histVars, pairVars,
                   diffVars, walkVars>>

\* lines 133-136: out_file.seek or out_file.write raises OSError (disk
\* full, I/O error) while bytes are written out: not a RequestException, so
\* it is not retried and leaves the with block of line 212
WriteFails ==
    /\ pc = "ranges"
    /\ retries < max_retries
    /\ temp_file' \in AttemptClosed
    /\ out_buf' = NoBuf
    /\ resp' = NoResp
    /\ attempts' = Requests
    /\ Raise("write")
    /\ UNCHANGED <<item, local_file, status_file, current_position, total_size, plan,
                   range_idx, retries, ret, pre_local, download_results, pairVars, run, waited, all_exact,
                   fetched, saved, diffVars, walkVars>>

\* SaveStatus passing the start of the range to tracker.save_status
SaveStatusAtStart ==
    /\ pc = "save"
    /\ current_position' = CurStart
    /\ status_file' \in AfterSave(status_file, CurStart)
    /\ saved' = Append(saved, CurStart)
    /\ range_idx' = range_idx + 1
    /\ retries' = 0
    /\ attempts' = 0
    /\ waited' = 0
    /\ IF range_idx' <= Len(plan)
       THEN /\ pc' = "ranges"
            /\ UNCHANGED <<temp_file, out_buf, resp, fail_cause, status_at_fail>>
       ELSE /\ out_buf' = NoBuf
            /\ UNCHANGED resp
            /\ \E close_ok \in BOOLEAN :
                  IF close_ok
                  THEN /\ temp_file' = File(Flushed(temp_file.data, out_buf))
                       /\ pc' = "verify"
                       /\ UNCHANGED <<fail_cause, status_at_fail>>
                  ELSE /\ temp_file' \in {File(d) : d \in PartlyFlushed(temp_file.data, out_buf)}
                       /\ pc' = "except"
                       /\ fail_cause' = "close"
                       /\ status_at_fail' = status_file'
    /\ UNCHANGED <<item, local_file, total_size, plan, ret, pre_local,
                   download_results, pairVars, run, all_exact, fetched,
                   diffVars, walkVars>>

\* line 224 and tracker.save_status: the checkpoint after a fetched range;
\* the next range's call starts with retries = 0 (line 123).  After the
\* last range the with block of line 212 ends: out_file is closed, which
\* writes out the pending bytes or raises the OSError of writing them
SaveStatus ==
    /\ pc = "save"
    /\ current_position' = CurEnd + 1
    /\ status_file' \in AfterSave(status_file, CurEnd + 1)
    /\ saved' = Append(saved, CurEnd + 1)
    /\ range_idx' = range_idx + 1
    /\ retries' = 0
    /\ attempts' = 0
    /\ waited' = 0
    /\ IF range_idx' <= Len(plan)
       THEN /\ pc' = "ranges"
            /\ UNCHANGED <<temp_file, out_buf, resp, fail_cause, status_at_fail>>
       ELSE /\ out_buf' = NoBuf
            /\ UNCHANGED resp
            /\ \E close_ok \in BOOLEAN :
                  IF close_ok
                  THEN /\ temp_file' = File(Flushed(temp_file.data, out_buf))
                       /\ pc' = "verify"
                       /\ UNCHANGED <<fail_cause, status_at_fail>>
                  ELSE /\ temp_file' \in {File(d) : d \in PartlyFlushed(temp_file.data, out_buf)}
                       /\ pc' = "except"
                       /\ fail_cause' = "close"
                       /\ status_at_fail' = status_file'
    /\ UNCHANGED <<item, local_file, total_size, plan, ret, pre_local,
                   download_results, pairVars, run, all_exact, fetched,
                   diffVars, walkVars>>

\* VerifyTemp without the test of lines 226-233
VerifyTempAlwaysPasses ==
    /\ pc = "verify"
    /\ pc' = "replace"
    /\ UNCHANGED <<item, local_file, temp_file, out_buf, resp, status_file, current_position, total_size,
                   plan, range_idx, retries, ret, pre_local, fail_cause, status_at_fail,
                   download_results, histVars, pairVars, diffVars, walkVars>>

\* lines 226-233: a missing staging file, or an empty one for total_size > 0,
\* is logged and the call returns False, the staging file left as it is;
\* the OSError of temp_path.exists() or stat() leads to the except block
VerifyTemp ==
    /\ pc = "verify"
    /\ \E stat_ok \in BOOLEAN :
          IF ~stat_ok
          THEN /\ Raise("verify")
               /\ UNCHANGED ret
          ELSE /\ IF ~temp_file.exists \/ (total_size > 0 /\ Len(temp_file.data) = 0)
                  THEN /\ pc' = "returned"
                       /\ ret' = "false"
                  ELSE /\ pc' = "replace"
                       /\ UNCHANGED ret
               /\ UNCHANGED <<fail_cause, status_at_fail>>
    /\ UNCHANGED <<item, local_file, temp_file, out_buf, resp, status_file, current_position, total_size,
                   plan, range_idx, retries, pre_local,
                   download_results,
                   histVars, pairVars, diffVars, walkVars>>

\* line 235: temp_path.replace(local_path), or its OSError
Replace ==
    /\ pc = "replace"
    /\ \E rename_ok \in BOOLEAN :
          IF rename_ok
          THEN /\ local_file' = File(temp_file.data)
               /\ temp_file' = Absent
               /\ pc' = "finish"
               /\ UNCHANGED <<fail_cause, status_at_fail>>
          ELSE /\ Raise("replace")
               /\ UNCHANGED <<local_file, temp_file>>
    /\ UNCHANGED <<item, out_buf, resp, status_file, current_position, total_size, plan, range_idx,
                   retries, ret, pre_local, download_results,
                   histVars, pairVars, diffVars, walkVars>>

\* lines 237-259: local_path.exists(), stat() and the checksum of the
\* committed file, or the OSError of one of them; one completed outcome;
\* tracker.cleanup(), whose status_path.exists() (tracker.py:47, before the
\* try) can raise into the except block after the outcome was appended;
\* return True.  A file that is missing or unexpectedly empty is logged and
\* the call returns False
Finish ==
    /\ pc = "finish"
    /\ \E read_ok \in BOOLEAN :
          IF ~read_ok
          THEN /\ Raise("checksum")
               /\ UNCHANGED <<download_results, status_file, ret>>
          ELSE IF \/ (local_file.exists /\ Len(local_file.data) > 0)
                  \/ (total_size = 0 /\ local_file.exists /\ Len(local_file.data) = 0)
                  THEN /\ download_results' = Append(download_results,
                             DownloadStatus(local_path, total_size, SumRanges(plan),
                                            calculate_checksum(local_file), "completed",
                                            Len(plan)))
                       /\ \E cleanup_ok \in BOOLEAN :
                             IF cleanup_ok
                             THEN /\ status_file' \in AfterCleanup(status_file)
                                  /\ pc' = "returned"
                                  /\ ret' = "true"
                                  /\ UNCHANGED <<fail_cause, status_at_fail>>
                             ELSE /\ Raise("cleanup")
                                  /\ UNCHANGED <<status_file, ret>>
                  ELSE /\ pc' = "returned"
                       /\ ret' = "false"
                       /\ UNCHANGED <<download_results, status_file, fail_cause,
                                      status_at_fail>>
    /\ UNCHANGED <<item, local_file, temp_file, out_buf, resp, current_position, total_size, plan,
                   range_idx, retries, pre_local,
                   histVars, pairVars, diffVars, walkVars>>

\* temp_path is assigned at line 200: an exception raised before that line,
\* or on the path of the empty plan, finds it None
NoTempPath == {"open", "diff", "checksum_unchanged", "cleanup_unchanged"}

\* lines 261-287: with temp_path set, temp_path.exists() (line 268, outside
\* the inner try) can raise, and the exception leaves download_drive_item
\* with nothing appended; otherwise the staging file is unlinked if it
\* exists, and stays when unlink raises OSError, which is logged; one failed
\* outcome is appended, return False
HandleException ==
    /\ pc = "except"
    /\ \E exists_ok \in BOOLEAN :
          IF ~exists_ok /\ fail_cause \notin NoTempPath
          THEN /\ pc' = "raised"
               /\ ret' = "raised"
               /\ UNCHANGED <<temp_file, download_results>>
          ELSE /\ temp_file' \in IF fail_cause \in NoTempPath THEN {temp_file}
                                  ELSE {Absent, temp_file}
               /\ download_results' = Append(download_results,
                      DownloadStatus(local_path, total_size, 0, EmptyChecksum, "failed", 0))
               /\ pc' = "returned"
               /\ ret' = "false"
    /\ UNCHANGED <<item, local_file, out_buf, resp, status_file, current_position, total_size,
                   plan, range_idx, retries, pre_local, fail_cause, status_at_fail,
                   histVars, pairVars, diffVars, walkVars>>

SessionNext ==
    \/ InvalidItem
    \/ LoadTracker
    \/ OpenFails
    \/ DiffFails
    \/ OpenAndDiff
    \/ Unchanged
    \/ Stage
    \/ FetchOk
    \/ FetchWaits
    \/ FetchFails
    \/ RangeFails
    \/ WriteFails
    \/ SaveStatus
    \/ VerifyTemp
    \/ Replace
    \/ Finish
    \/ HandleException

SpecSession == SessionInit /\ [][SessionNext]_vars

(***************************************************************************)
(* SpecResync: download_drive_item executed for local_path, and executed   *)
(* once more for the same item after the first execution has completed.    *)
(* The remote content, the destination, the sidecar and download_results   *)
(* are what the first execution left.                                      *)
(***************************************************************************)
Rerun ==
    /\ run = 1
    /\ pc = "returned"
    /\ ret = "true"
    /\ run' = 2
    /\ pc' = "start"
    /\ ret' = "none"
    /\ pre_local' = local_file
    /\ current_position' = 0
    /\ total_size' = 0
    /\ plan' = <<>>
    /\ range_idx' = 0
    /\ retries' = 0
    /\ attempts' = 0
    /\ waited' = 0
    /\ fetched' = <<>>
    /\ saved' = <<>>
    /\ fail_cause' = "none"
    /\ status_at_fail' = NoStatus
    /\ UNCHANGED <<item, local_file, temp_file, out_buf, resp, status_file, all_exact, download_results,
                   pairVars, diffVars, walkVars>>

ResyncNext == SessionNext \/ Rerun

SpecResync == SessionInit /\ [][ResyncNext]_vars


(***************************************************************************)
(* SpecPair: download_drive_item executed from one destination content and *)
(* one remote content twice, first with a sidecar that holds a position    *)
(* and then with no sidecar, the remote and the filesystem behaving the    *)
(* same way in both runs.  The second run starts from the state the first  *)
(* started from, the sidecar excepted.                                     *)
(***************************************************************************)
\* the positions the first run's sidecar holds: none of the file, its first
\* byte, or more than any file has
PairPositions == {0, 1, MaxLen}

\* the one item without a name
NoItem == [has_name |-> FALSE, content |-> <<>>, content_length |-> 0, chunk_size |-> 1]

\* what can go wrong in a run, one thing per behaviour: nothing; the
\* status_path.exists() of the tracker raises; item.open raises; the chunker
\* raises; the staging copy fails before it creates the file; the staging
\* copy fails after it created the file; every request fails; the first
\* write fails; the first request of each range fails after at most one
\* byte; every response waits after its first byte; every response lacks
\* the last byte of its range; every response is the whole content; the
\* sidecar can be neither written nor removed; a sidecar write leaves a
\* truncated file; closing out_file fails; the stat() of line 226 raises;
\* the rename fails; the checksum read fails; tracker.cleanup() raises
Faults == {"ok", "stat_fails", "open_fails", "diff_fails", "copy_fails", "copy_partial",
           "range_fails", "write_fails", "flaky", "slow", "short", "whole",
           "sidecar_fails", "sidecar_truncated", "close_fails", "verify_fails",
           "rename_fails", "read_fails", "cleanup_raises"}

\* the faults after which the except block runs with temp_path set
TempFaults == {"copy_fails", "copy_partial", "range_fails", "write_fails", "close_fails",
               "verify_fails", "rename_fails", "read_fails", "cleanup_raises"}

\* the faults that are about the bytes written to out_file
WritingFaults == {"ok", "write_fails", "flaky", "slow", "short", "whole", "close_fails"}

\* the faults under which a staging file left by an earlier run is looked at
StaleFaults == {"ok", "open_fails", "copy_fails", "range_fails"}

\* what the except block does with the staging file: unlinks it; unlink
\* raises OSError and the file stays; temp_path.exists() raises
Handlers == {"unlinks", "keeps", "raises"}

\* behaviours of the remote and the filesystem, each deterministic: a
\* fault; whether the bytes written to out_file stay in its buffer until
\* seek() or close() writes them out, or are written through; what the
\* except block does; the staging file an earlier run left.  A behaviour
\* departs from the plain one (no fault, written through, unlinks, no
\* staging file) in the fault and in at most one other respect.
Scenarios ==
    {sc \in [fault : Faults, buffered : BOOLEAN, handler : Handlers,
             stale : {Absent, File(<<1>>)}] :
        /\ sc.buffered => sc.fault \in WritingFaults
        /\ sc.handler # "unlinks" => sc.fault \in TempFaults
        /\ sc.stale.exists => sc.fault \in StaleFaults
        /\ ~(sc.buffered /\ sc.handler # "unlinks")
        /\ ~(sc.buffered /\ sc.stale.exists)
        /\ ~(sc.handler # "unlinks" /\ sc.stale.exists)}

\* the staging file and the buffer after the attempt has written sent in
\* all, under the scenario's way of writing
Put(sent) ==
    LET more == SubSeq(sent, Len(resp.sent) + 1, Len(sent))
        at   == CurStart + Len(resp.sent)
        data == AttemptBase[1]
        buf  == AttemptBase[2]
    IN  IF more = <<>> THEN <<data, buf>>
        ELSE IF scenario.buffered
        THEN <<data, [start |-> IF buf.data = <<>> THEN at ELSE buf.start,
                      data |-> buf.data \o more]>>
        ELSE <<WriteAt(Flushed(data, buf), at, more), NoBuf>>

\* the attempt has written sent in all
Puts(sent) ==
    /\ temp_file' = File(Put(sent)[1])
    /\ out_buf' = Put(sent)[2]

\* the step of download_drive_item that the scenario selects; an item without
\* name is refused at line 166 before the tracker is constructed, whatever
\* the scenario
Allowed ==
    /\ (pc = "start" /\ item.has_name) =>
            ((pc' = "raised") <=> (scenario.fault = "stat_fails"))
    /\ pc = "open" =>
        CASE scenario.fault = "open_fails" -> fail_cause' = "open"
          [] scenario.fault = "diff_fails" -> fail_cause' = "diff"
          [] OTHER -> pc' # "except"
    /\ pc = "unchanged" =>
        /\ (fail_cause' = "checksum_unchanged") <=> (scenario.fault = "read_fails")
        /\ (fail_cause' = "cleanup_unchanged") <=> (scenario.fault = "cleanup_raises")
    /\ pc = "stage" =>
        /\ (pc' = "except") <=> (scenario.fault \in {"copy_fails", "copy_partial"})
        /\ scenario.fault = "copy_fails" => temp_file' = temp_file
        /\ scenario.fault = "copy_partial" => temp_file' = File(<<>>)
    /\ pc = "verify" => ((pc' = "except") <=> (scenario.fault = "verify_fails"))
    /\ pc = "replace" => ((pc' = "except") <=> (scenario.fault = "rename_fails"))
    /\ pc = "finish" =>
        /\ (fail_cause' = "checksum") <=> (scenario.fault = "read_fails")
        /\ (fail_cause' = "cleanup") <=> (scenario.fault = "cleanup_raises")
    /\ (pc \in {"unchanged", "finish"} /\ pc' = "returned" /\ ret' = "true") =>
            status_file' = IF scenario.fault = "sidecar_fails" THEN status_file ELSE NoStatus
    /\ pc = "save" =>
        /\ status_file' = CASE scenario.fault = "sidecar_fails" -> status_file
                            [] scenario.fault = "sidecar_truncated" ->
                                  [kind |-> "not_json", position |-> 0]
                            [] OTHER -> SavedStatus(CurEnd + 1)
        /\ (pc' = "except") <=> (scenario.fault = "close_fails" /\ range_idx = Len(plan))
        /\ pc' = "except" => temp_file' = temp_file
    /\ (pc = "except" /\ fail_cause \notin NoTempPath) =>
        CASE scenario.handler = "raises" -> pc' = "raised"
          [] scenario.handler = "keeps" -> pc' = "returned" /\ temp_file' = temp_file
          [] OTHER -> pc' = "returned" /\ temp_file' = Absent
    /\ pc = "ranges" =>
        LET exact == RangeBody(item.content, CurStart, CurEnd)
            piece == SubSeq(exact, 1, Min(1, Len(exact)))
        IN  CASE retries >= max_retries ->
                    temp_file' = File(Flushed(temp_file.data, out_buf))
              [] scenario.fault = "range_fails" ->
                    /\ retries' = retries + 1
                    /\ temp_file' = temp_file
                    /\ out_buf' = out_buf
              [] scenario.fault = "write_fails" ->
                    /\ fail_cause' = "write"
                    /\ temp_file' = File(Flushed(temp_file.data, out_buf))
              [] scenario.fault = "flaky" /\ attempts = 0 ->
                    /\ retries' = retries + 1
                    /\ Puts(SubSeq(exact, 1, Min(1, Len(exact) - 1)))
              [] scenario.fault = "slow" /\ ~resp.open ->
                    /\ resp' = Reading(piece)
                    /\ Puts(piece)
              [] scenario.fault = "short" ->
                    /\ pc' = "save"
                    /\ Puts(SubSeq(exact, 1, Len(exact) - 1))
                    /\ all_exact' = FALSE
              [] scenario.fault = "whole" ->
                    /\ pc' = "save"
                    /\ Puts(item.content)
                    /\ all_exact' = (all_exact /\ item.content = exact)
              [] OTHER ->
                    /\ pc' = "save"
                    /\ Puts(exact)
                    /\ all_exact' = all_exact

\* what a run ended with
RunResult ==
    [plan |-> plan, fetched |-> fetched, local_file |-> local_file,
     results |-> download_results, ret |-> ret]

\* the first run has ended: its result is kept and the second run starts
\* from the first run's initial state with no sidecar
SecondRun ==
    /\ run = 1
    /\ pc \in {"returned", "raised"}
    /\ first' = RunResult
    /\ run' = 2
    /\ local_file' = pre_local
    /\ temp_file' = scenario.stale
    /\ out_buf' = NoBuf
    /\ resp' = NoResp
    /\ status_file' = NoStatus
    /\ download_results' = <<>>
    /\ pc' = "start"
    /\ ret' = "none"
    /\ current_position' = 0
    /\ total_size' = 0
    /\ plan' = <<>>
    /\ range_idx' = 0
    /\ retries' = 0
    /\ attempts' = 0
    /\ waited' = 0
    /\ all_exact' = TRUE
    /\ fetched' = <<>>
    /\ saved' = <<>>
    /\ fail_cause' = "none"
    /\ status_at_fail' = NoStatus
    /\ UNCHANGED <<item, pre_local, scenario, diffVars, walkVars>>

PairInit ==
    /\ SessionStart
    /\ status_file.kind = "position"
    /\ status_file.position \in PairPositions
    /\ ~item.has_name => (item = NoItem /\ local_file = Absent)
    /\ scenario \in Scenarios
    /\ temp_file = scenario.stale
    /\ first = NoFirst

PairNext == (SessionNext /\ Allowed) \/ SecondRun

SpecPair == PairInit /\ [][PairNext]_vars

(***************************************************************************)
(* SpecWalk: download() after the remote root is resolved, and the         *)
(* process_item_parallel call of every item of the tree.                   *)
(*                                                                         *)
(* A tree is n items numbered in listing order, item 1 the root;           *)
(* parent[c] is the directory that lists c.  kind[c] is "file" when        *)
(* can_read_file(item) holds and "dir" when the item has dir().  bad is a  *)
(* child whose lookup item[name] raises (0: none), dup a file listed under *)
(* a name related to the name of the item before it (0: none): rel tells  *)
(* whether it is the same name, hence the same local path, or that name    *)
(* followed by ".temp" or by ".download".                                  *)
(***************************************************************************)
RECURSIVE ParentSeqs(_)
ParentSeqs(n) ==
    IF n = 1 THEN {<<0>>}
    ELSE {Append(q, k) : q \in ParentSeqs(n - 1), k \in 1..(n - 1)} \cap
         {q \in Seq(0..(n - 1)) : Len(q) = n /\ (n > 2 => q[n] >= q[n - 1])}

Nodes == 1..tree.n
Children(d) == {c \in Nodes : tree.parent[c] = d}
IsFile(c) == tree.kind[c] = "file"

\* how the name of the item tree.dup is related to the name of the item
\* listed before it: the same name, or that name followed by ".temp" or by
\* ".download"
Rels == {"same", "temp", "download"}

\* str(local_path): two items have the same path when one is listed under
\* the name of the other
PathOf(c) == IF tree.dup = c /\ tree.rel = "same" THEN c - 1 ELSE c

\* local_path / name as a file name: the item whose name it starts with and
\* the suffixes that follow that name
LocalPath(c) ==
    IF tree.dup = c /\ tree.rel # "same" THEN <<c - 1, <<tree.rel>>>> ELSE <<PathOf(c), <<>>>>

\* Path.with_suffix(path.suffix + suffix)
with_suffix(path, suffix) == <<path[1], Append(path[2], suffix)>>

\* downloader.py line 200
temp_path(c) == with_suffix(LocalPath(c), "temp")

\* tracker.py line 16
status_path(c) == with_suffix(LocalPath(c), "download")

\* the files a session of item c reads or writes: the sidecar (lines 168,
\* 195, 229, 249-259), the destination (lines 176, 202, 235, 238) and the
\* staging file (lines 202-235)
SessionFiles(c) == {LocalPath(c), temp_path(c), status_path(c)}

\* a call that has returned, and how
Finished == {"ended", "skipped", "joined", "aborted", "returned"}
\* a call that is inside download_drive_item
InSession == {"session", "fetch", "commit", "built", "cleanup", "except"}
\* a call that has taken its first step and has not returned
Running == InSession \cup {"release", "submit", "join", "abort_join"}

\* what a call keeps of its session: the ranges of the plan still to fetch,
\* retries of the current _stream_download_range call, whether temp_path is
\* set (line 200), and the status of the DownloadStatus built for the next
\* append
NoWork == [ranges |-> 0, retries |-> 0, temp_path |-> FALSE, pending |-> "none"]

\* CanStart with one executor shared by every directory of the walk
CanStartSharedPool(c) ==
    /\ task[c] = "queued"
    /\ c # 1 =>
        Cardinality({x \in Nodes : x # 1 /\ task[x] \in Running}) < max_workers

\* ThreadPoolExecutor(max_workers): every directory call has its own
\* executor, whose threads take the submitted tasks in submission order; a
\* task can be running when fewer than max_workers of the tasks submitted
\* before it are unfinished.  Which of the running tasks takes its next
\* step is up to the scheduler: a task that was taken first need not be the
\* first at the lock.  The root call is made by download() itself
CanStart(c) ==
    /\ task[c] = "queued"
    /\ c # 1 =>
        Cardinality({x \in Children(tree.parent[c]) :
                        x < c /\ task[x] \notin Finished}) < max_workers

\* download() is about to make the root call, for a tree of at most most items
WalkStart(most) ==
    /\ DiffIdle
    /\ SessionIdle
    /\ \E n \in 1..most :
        \E par \in ParentSeqs(n) :
         \E kd \in [1..n -> {"file", "dir"}] :
          \E bad \in 0..n, dup \in 0..n, rel \in Rels :
            /\ \A c \in 2..n : kd[par[c]] = "dir"
            /\ bad # 1
            /\ bad = 0 \/ dup = 0
            /\ dup # 0 => /\ dup > 2
                          /\ par[dup] = par[dup - 1]
                          /\ kd[dup] = "file" /\ kd[dup - 1] = "file"
            /\ dup = 0 => rel = "same"
            /\ tree = [n |-> n, parent |-> par, kind |-> kd, bad |-> bad, dup |-> dup,
                       rel |-> rel]
    /\ max_workers \in 1..MaxWorkers
    /\ task = [c \in Nodes |-> IF c = 1 THEN "queued" ELSE "none"]
    /\ work = [c \in Nodes |-> NoWork]
    /\ active_downloads = {}
    /\ root_fs \in {"absent", "dir"}
    /\ main_pc = "walk"
    /\ saw_active = [c \in Nodes |-> FALSE]
    /\ outcomes = [c \in Nodes |-> <<>>]
    /\ report = NoReport
    /\ download_results = <<>>

WalkInit == WalkStart(MaxNodes)

\* Gate without the membership test of line 295
GateNoCheck(c) ==
    /\ CanStart(c)
    /\ IsFile(c)
    /\ saw_active' = [saw_active EXCEPT ![c] = PathOf(c) \in active_downloads]
    /\ task' = [task EXCEPT ![c] = "session"]
    /\ active_downloads' = active_downloads \cup {PathOf(c)}
    /\ UNCHANGED <<tree, max_workers, work, root_fs, main_pc, outcomes, download_results,
                   report, diffVars, sessionVars>>

\* Gate where the call that is turned away records a failed outcome
GateSkipRecords(c) ==
    /\ CanStart(c)
    /\ IsFile(c)
    /\ saw_active' = [saw_active EXCEPT ![c] = PathOf(c) \in active_downloads]
    /\ IF PathOf(c) \in active_downloads
       THEN /\ task' = [task EXCEPT ![c] = "skipped"]
            /\ download_results' = Append(download_results,
                                          [path |-> PathOf(c), status |-> "failed"])
            /\ outcomes' = [outcomes EXCEPT ![c] = Append(@, "failed")]
            /\ UNCHANGED active_downloads
       ELSE /\ task' = [task EXCEPT ![c] = "session"]
            /\ active_downloads' = active_downloads \cup {PathOf(c)}
            /\ UNCHANGED <<outcomes, download_results>>
    /\ UNCHANGED <<tree, max_workers, work, root_fs, main_pc, report, diffVars, sessionVars>>

\* lines 292-300: can_read_file(item) holds; under _download_lock, a path
\* already in _active_downloads makes the call return; otherwise the path
\* is added and, the lock released, download_drive_item is entered
Gate(c) ==
    /\ CanStart(c)
    /\ IsFile(c)
    /\ saw_active' = [saw_active EXCEPT ![c] = PathOf(c) \in active_downloads]
    /\ IF PathOf(c) \in active_downloads
       THEN /\ task' = [task EXCEPT ![c] = "skipped"]
            /\ UNCHANGED active_downloads
       ELSE /\ task' = [task EXCEPT ![c] = "session"]
            /\ active_downloads' = active_downloads \cup {PathOf(c)}
    /\ UNCHANGED <<tree, max_workers, work, root_fs, main_pc, outcomes, download_results,
                   report, diffVars, sessionVars>>

\* download_drive_item, lines 160-210, as SpecSession shows them: the call
\* leaves at once with no outcome (return False at line 166, or the
\* exception of the tracker's status_path.exists() at line 168, raised
\* outside the try); an exception with temp_path unset (item.open, the
\* chunker, the checksum of the unchanged file); the completed outcome of an
\* empty plan is built; an exception while the staging file is made; or the
\* staging file is made and a plan of n >= 1 ranges is to be fetched.  A
\* session of the root item is the one whose destination is the local root
\* path: over a directory it neither finds the file unchanged nor stages it
Enter(c) ==
    /\ task[c] = "session"
    /\ \E how \in {"leaves", "fails", "unchanged", "stage_fails", "staged"},
          n \in 1..MaxRanges :
        /\ (c = 1 /\ root_fs = "dir") => how \notin {"unchanged", "staged"}
        /\ how # "staged" => n = 1
        /\ CASE how = "leaves" ->
                    /\ task' = [task EXCEPT ![c] = "release"]
                    /\ UNCHANGED <<work, outcomes>>
             [] how = "fails" ->
                    /\ task' = [task EXCEPT ![c] = "except"]
                    /\ UNCHANGED <<work, outcomes>>
             [] how = "unchanged" ->
                    /\ task' = [task EXCEPT ![c] = "built"]
                    /\ work' = [work EXCEPT ![c].pending = "completed"]
                    /\ outcomes' = [outcomes EXCEPT ![c] = Append(@, "completed")]
             [] how = "stage_fails" ->
                    /\ task' = [task EXCEPT ![c] = "except"]
                    /\ work' = [work EXCEPT ![c].temp_path = TRUE]
                    /\ UNCHANGED outcomes
             [] how = "staged" ->
                    /\ task' = [task EXCEPT ![c] = "fetch"]
                    /\ work' = [work EXCEPT ![c].temp_path = TRUE, ![c].ranges = n]
                    /\ UNCHANGED outcomes
    /\ UNCHANGED <<tree, max_workers, active_downloads, root_fs, main_pc, saw_active,
                   download_results, report, diffVars, sessionVars>>

\* _stream_download_range, lines 127-153, one iteration of the loop: the
\* response is accepted and written, and the call returns (the next range's
\* call starts with retries = 0; after the last range out_file is closed,
\* which can raise); or the request fails, retries += 1; or writing raises
\* OSError, which is not retried
Attempt(c) ==
    /\ task[c] = "fetch"
    /\ work[c].retries < max_retries
    /\ \E res \in {"ok", "close_fails", "fails", "write_fails"} :
        CASE res = "ok" ->
                /\ work' = [work EXCEPT ![c].ranges = @ - 1, ![c].retries = 0]
                /\ task' = [task EXCEPT ![c] = IF work[c].ranges = 1 THEN "commit" ELSE "fetch"]
          [] res = "close_fails" ->
                /\ work[c].ranges = 1
                /\ work' = [work EXCEPT ![c].ranges = 0, ![c].retries = 0]
                /\ task' = [task EXCEPT ![c] = "except"]
          [] res = "fails" ->
                /\ work' = [work EXCEPT ![c].retries = @ + 1]
                /\ UNCHANGED task
          [] res = "write_fails" ->
                /\ work' = [work EXCEPT ![c].ranges = 0, ![c].retries = 0]
                /\ task' = [task EXCEPT ![c] = "except"]
    /\ UNCHANGED <<tree, max_workers, active_downloads, root_fs, main_pc, saw_active,
                   outcomes, download_results, report, diffVars, sessionVars>>

\* lines 127, 155-157: the loop condition fails after max_retries failed
\* attempts and the range's exception is raised
RangeGivenUp(c) ==
    /\ task[c] = "fetch"
    /\ work[c].retries >= max_retries
    /\ task' = [task EXCEPT ![c] = "except"]
    /\ work' = [work EXCEPT ![c].ranges = 0]
    /\ UNCHANGED <<tree, max_workers, active_downloads, root_fs, main_pc, saw_active,
                   outcomes, download_results, report, diffVars, sessionVars>>

\* lines 226-247: the staging file fails the test and the call returns
\* False; stat() or the rename raises; the rename is done, after which the
\* checksum raises, or the file is found missing or empty and the call
\* returns False, or the completed outcome is built.  The rename of a
\* session of the root item leaves a file at the local root path
Commit(c) ==
    /\ task[c] = "commit"
    /\ \E res \in {"bad_temp", "raises", "renamed_raises", "renamed_bad", "renamed"} :
        /\ root_fs' = IF c = 1 /\ res \in {"renamed_raises", "renamed_bad", "renamed"}
                      THEN "file" ELSE root_fs
        /\ CASE res \in {"bad_temp", "renamed_bad"} ->
                    /\ task' = [task EXCEPT ![c] = "release"]
                    /\ UNCHANGED <<work, outcomes>>
             [] res \in {"raises", "renamed_raises"} ->
                    /\ task' = [task EXCEPT ![c] = "except"]
                    /\ UNCHANGED <<work, outcomes>>
             [] res = "renamed" ->
                    /\ task' = [task EXCEPT ![c] = "built"]
                    /\ work' = [work EXCEPT ![c].pending = "completed"]
                    /\ outcomes' = [outcomes EXCEPT ![c] = Append(@, "completed")]
    /\ UNCHANGED <<tree, max_workers, active_downloads, main_pc, saw_active,
                   download_results, report, diffVars, sessionVars>>

\* AppendOutcome whose append overwrites what other workers have appended
AppendOutcomeLostUpdate(c) ==
    /\ task[c] = "built"
    /\ download_results' = <<[path |-> PathOf(c), status |-> work[c].pending]>>
    /\ work' = [work EXCEPT ![c].pending = "none"]
    /\ task' = [task EXCEPT ![c] = IF work[c].pending = "completed" THEN "cleanup"
                                   ELSE "release"]
    /\ UNCHANGED <<tree, max_workers, active_downloads, root_fs, main_pc, saw_active,
                   outcomes, report, diffVars, sessionVars>>

\* self.download_results.append(...), lines 188, 250 and 279, made with no
\* lock held: the DownloadStatus that was built is appended; after a
\* completed outcome tracker.cleanup() follows, after a failed one the
\* call returns False
AppendOutcome(c) ==
    /\ task[c] = "built"
    /\ download_results' = Append(download_results,
                                  [path |-> PathOf(c), status |-> work[c].pending])
    /\ work' = [work EXCEPT ![c].pending = "none"]
    /\ task' = [task EXCEPT ![c] = IF work[c].pending = "completed" THEN "cleanup"
                                   ELSE "release"]
    /\ UNCHANGED <<tree, max_workers, active_downloads, root_fs, main_pc, saw_active,
                   outcomes, report, diffVars, sessionVars>>

\* tracker.cleanup(), lines 195 and 258, and return True; its
\* status_path.exists() (tracker.py:47) can raise into the except block,
\* the completed outcome already appended
Cleanup(c) ==
    /\ task[c] = "cleanup"
    /\ \E cleanup_ok \in BOOLEAN :
        task' = [task EXCEPT ![c] = IF cleanup_ok THEN "release" ELSE "except"]
    /\ UNCHANGED <<tree, max_workers, work, active_downloads, root_fs, main_pc, saw_active,
                   outcomes, download_results, report, diffVars, sessionVars>>

\* lines 261-279: with temp_path set, temp_path.exists() (line 268) can
\* raise out of download_drive_item, nothing appended; otherwise the staging
\* file is unlinked, or stays, and the failed outcome is built
Handle(c) ==
    /\ task[c] = "except"
    /\ \E exists_ok \in BOOLEAN :
        IF ~exists_ok /\ work[c].temp_path
        THEN /\ task' = [task EXCEPT ![c] = "release"]
             /\ work' = [work EXCEPT ![c] = NoWork]
             /\ UNCHANGED outcomes
        ELSE /\ task' = [task EXCEPT ![c] = "built"]
             /\ work' = [work EXCEPT ![c] = [NoWork EXCEPT !.pending = "failed"]]
             /\ outcomes' = [outcomes EXCEPT ![c] = Append(@, "failed")]
    /\ UNCHANGED <<tree, max_workers, active_downloads, root_fs, main_pc, saw_active,
                   download_results, report, diffVars, sessionVars>>

\* Release that leaves the path in the set
ReleaseKeepsPath(c) ==
    /\ task[c] = "release"
    /\ task' = [task EXCEPT ![c] = "ended"]
    /\ work' = [work EXCEPT ![c] = NoWork]
    /\ UNCHANGED <<tree, max_workers, active_downloads, root_fs, main_pc, saw_active,
                   outcomes, download_results, report, diffVars, sessionVars>>

\* lines 312-314: the finally clause removes the path, whether the session
\* returned or raised; an exception is then logged at line 334
Release(c) ==
    /\ task[c] = "release"
    /\ active_downloads' = active_downloads \ {PathOf(c)}
    /\ task' = [task EXCEPT ![c] = "ended"]
    /\ work' = [work EXCEPT ![c] = NoWork]
    /\ UNCHANGED <<tree, max_workers, root_fs, main_pc, saw_active, outcomes,
                   download_results, report, diffVars, sessionVars>>

\* the children the list comprehension of lines 321-324 submits: all of
\* them, or those before the child whose lookup item[name] raises
Submitted(d) ==
    IF tree.bad \in Children(d) THEN {c \in Children(d) : c < tree.bad} ELSE Children(d)

\* the children of d not yet reached by the list comprehension
Unsubmitted(d) == {c \in Children(d) : task[c] = "none"}

\* the least element of a non-empty set of items
Least(S) == CHOOSE c \in S : \A x \in S : c <= x

\* lines 316-320: item.dir() raises (logged at line 334), or lists nothing,
\* or local_path.mkdir raises, or the local directory is made and the
\* executor is created
ListDir(d) ==
    /\ CanStart(d)
    /\ ~IsFile(d)
    /\ \E list_ok \in BOOLEAN :
        IF ~list_ok \/ Children(d) = {}
        THEN /\ task' = [task EXCEPT ![d] = "returned"]
             /\ UNCHANGED root_fs
        ELSE /\ root_fs' = "dir"
             /\ task' = [task EXCEPT ![d] = "submit"]
    /\ UNCHANGED <<tree, max_workers, work, active_downloads, main_pc, saw_active, outcomes,
                   download_results, report, diffVars, sessionVars>>

\* lines 321-324, one element of the list comprehension: item[name] is
\* looked up and the call for it is submitted, while the calls submitted
\* before it run; a lookup that raises leaves the with block with the
\* children after it not submitted
Submit(d) ==
    /\ task[d] = "submit"
    /\ LET c == Least(Unsubmitted(d))
       IN  task' = IF c = tree.bad
                   THEN [task EXCEPT ![d] = "abort_join"]
                   ELSE [task EXCEPT ![c] = "queued",
                                     ![d] = IF Unsubmitted(d) = {c} THEN "join" ELSE "submit"]
    /\ UNCHANGED <<tree, max_workers, work, active_downloads, root_fs, main_pc, saw_active,
                   outcomes, download_results, report, diffVars, sessionVars>>

\* Join that returns without waiting for the children
JoinNoWait(d) ==
    /\ task[d] = "join"
    /\ task' = [task EXCEPT ![d] = "joined"]
    /\ UNCHANGED <<tree, max_workers, work, active_downloads, root_fs, main_pc, saw_active,
                   outcomes, download_results, report, diffVars, sessionVars>>

\* lines 325-332 and the executor's __exit__ (shutdown(wait=True)): the call
\* returns when every submitted child has finished
Join(d) ==
    /\ task[d] = "join"
    /\ \A c \in Children(d) : task[c] \in Finished
    /\ task' = [task EXCEPT ![d] = "joined"]
    /\ UNCHANGED <<tree, max_workers, work, active_downloads, root_fs, main_pc, saw_active,
                   outcomes, download_results, report, diffVars, sessionVars>>

\* the lookup exception leaves the with block: __exit__ waits for the
\* children already submitted, then the exception is logged at line 334
AbortJoin(d) ==
    /\ task[d] = "abort_join"
    /\ \A c \in Submitted(d) : task[c] \in Finished
    /\ task' = [task EXCEPT ![d] = "aborted"]
    /\ UNCHANGED <<tree, max_workers, work, active_downloads, root_fs, main_pc, saw_active,
                   outcomes, download_results, report, diffVars, sessionVars>>

\* download(), lines 410-417: after the root call returns the summary is
\* computed and the report file is opened for writing under the local root:
\* open raises when the local root is no directory, and also when the
\* report file cannot be opened there (a directory of that name, no
\* permission to write)
WriteReport ==
    /\ main_pc = "walk"
    /\ task[1] \in Finished
    /\ report' = generate_summary_report(download_results)
    /\ \E open_ok \in BOOLEAN :
        main_pc' = IF root_fs # "dir" THEN "raised"
                   ELSE IF open_ok THEN "reported" ELSE "unwritable"
    /\ UNCHANGED <<tree, max_workers, task, work, active_downloads, root_fs, saw_active,
                   outcomes, download_results, diffVars, sessionVars>>

WalkNext ==
    \/ \E c \in Nodes : Gate(c)
    \/ \E c \in Nodes : Enter(c)
    \/ \E c \in Nodes : Attempt(c)
    \/ \E c \in Nodes : RangeGivenUp(c)
    \/ \E c \in Nodes : Commit(c)
    \/ \E c \in Nodes : AppendOutcome(c)
    \/ \E c \in Nodes : Cleanup(c)
    \/ \E c \in Nodes : Handle(c)
    \/ \E c \in Nodes : Release(c)
    \/ \E d \in Nodes : ListDir(d)
    \/ \E d \in Nodes : Submit(d)
    \/ \E d \in Nodes : Join(d)
    \/ \E d \in Nodes : AbortJoin(d)
    \/ WriteReport

SpecWalk == WalkInit /\ [][WalkNext]_vars

\* the walk of the trees of at most MaxRaceNodes items, in every interleaving
WalkRaceInit == WalkStart(MaxRaceNodes)

SpecWalkRace == WalkRaceInit /\ [][WalkNext]_vars

\* the same walk with at most MaxFairWorkers workers and with scheduling: a
\* thread that can take a step takes one, and every request attempt returns
\* or fails, so a step of the walk that stays possible is eventually taken
WalkFairInit == WalkRaceInit /\ max_workers <= MaxFairWorkers

SpecWalkFair == WalkFairInit /\ [][WalkNext]_vars /\ WF_vars(WalkNext)

(***************************************************************************)
(* C10                                                                     *)
(***************************************************************************)
\* both files are made of the same number N >= 1 of full chunk_size windows
SameWindows(file, content, chunk_size) ==
    /\ file.exists
    /\ Len(file.data) > 0
    /\ Len(file.data) = Len(content)
    /\ Len(content) % chunk_size = 0

\* indices of the windows whose remote bytes differ from the local bytes at
\* the same offset
DifferingWindows(file, content, chunk_size) ==
    {i \in 0..(Len(content) \div chunk_size - 1) :
        ReadAt(content, i * chunk_size, chunk_size) # ReadAt(file.data, i * chunk_size, chunk_size)}

\* the maximal runs of consecutive differing windows, as byte ranges
MergedWindowRanges(D, chunk_size) ==
    {<<p[1] * chunk_size, (p[2] + 1) * chunk_size - 1>> :
        p \in {q \in D \X D : /\ q[1] <= q[2]
                               /\ \A x \in q[1]..q[2] : x \in D
                               /\ (q[1] - 1) \notin D
                               /\ (q[2] + 1) \notin D}}

RangeSet(rs) == {rs[i] : i \in 1..Len(rs)}

\* C10: for a non-empty local file and a remote file of the same N full
\* windows, find_changed_chunks returns exactly the merged ranges of the
\* windows whose remote content differs from the local window at the same
\* offset (also when those bytes occur locally at another window index), and
\* the empty plan when no window differs.
C10_DiffCorrect ==
    (d_pc = "diffed" /\ SameWindows(d_file, d_response.content, d_response.chunk_size)) =>
        LET expected == MergedWindowRanges(
                            DifferingWindows(d_file, d_response.content, d_response.chunk_size),
                            d_response.chunk_size)
        IN  /\ RangeSet(changed_ranges) = expected
            /\ Len(changed_ranges) = Cardinality(expected)

\* the same statement restricted to remote windows that occur nowhere in the
\* local file (the case the hash-presence test of line 86 does decide) and
\* to responses that state their length (the scan of line 77 ends at it)
C10_NoRelocatedWindow ==
    \A i \in DifferingWindows(d_file, d_response.content, d_response.chunk_size) :
        md5(ReadAt(d_response.content, i * d_response.chunk_size, d_response.chunk_size))
            \notin DOMAIN get_file_chunks(d_file, d_response.chunk_size)

C10_DiffCorrectUnlessRelocated ==
    (/\ d_pc = "diffed"
     /\ SameWindows(d_file, d_response.content, d_response.chunk_size)
     /\ content_length(d_response) = Len(d_response.content)
     /\ C10_NoRelocatedWindow) =>
        LET expected == MergedWindowRanges(
                            DifferingWindows(d_file, d_response.content, d_response.chunk_size),
                            d_response.chunk_size)
        IN  /\ RangeSet(changed_ranges) = expected
            /\ Len(changed_ranges) = Cardinality(expected)

(***************************************************************************)
(* C3, C4, C5: one session                                                 *)
(***************************************************************************)
\* positions of download_drive_item that precede line 235
BeforeReplace == {"start", "open", "unchanged", "stage", "ranges", "save", "verify", "replace"}

\* C3 (atomic commit): the destination's content is changed by one step only,
\* the rename of the complete staging file over it (line 235), and that step
\* starts from the pre-sync content; in every state before it, which is where
\* an interrupted run stops, the destination holds its pre-sync content.
C3_AtomicCommit ==
    /\ [](pc \in BeforeReplace => local_file = pre_local)
    /\ [][local_file' # local_file =>
            /\ pc = "replace" /\ pc' = "finish"
            /\ local_file = pre_local
            /\ temp_file.exists
            /\ local_file' = File(temp_file.data)
            /\ ~temp_file'.exists]_vars

\* the rename has replaced an existing destination by different bytes
C3_Witness ==
    /\ pc = "finish"
    /\ pre_local.exists
    /\ Len(pre_local.data) > 0
    /\ local_file # pre_local

\* C4 (staging failure): when a range fetch has used up max_retries, or a
\* local write error occurred while ranges were applied (raised by a write,
\* or by the close that writes out what was buffered), the session ends
\* with no staging file, exactly one outcome, of status failed, the
\* destination as before the session, and the sidecar that existed when the
\* error was raised still in place.
C4_StagingFailure ==
    (pc = "returned" /\ fail_cause \in {"range", "write", "close"}) =>
        /\ ~temp_file.exists
        /\ Len(download_results) = 1
        /\ download_results[1].status = "failed"
        /\ local_file = pre_local
        /\ (status_at_fail.kind # "absent" => status_file = status_at_fail)

\* C5: every download_drive_item execution that has ended, by whatever path,
\* has appended exactly one outcome, of status completed or failed.
C5_ExactlyOneOutcome ==
    pc \in {"returned", "raised"} =>
        /\ Len(download_results) = 1
        /\ download_results[1].status \in {"completed", "failed"}

(***************************************************************************)
(* C1, C2, C6, C7, C8, C9: the tree walk                                   *)
(***************************************************************************)
\* two different calls dispatched for the same destination path
SamePath(a, b) == a # b /\ IsFile(a) /\ IsFile(b) /\ PathOf(a) = PathOf(b)

\* C1 (mutual exclusion per destination path): at no time are two
\* download_drive_item executions for the same destination path in progress.
C1_MutualExclusion ==
    \A a \in Nodes, b \in Nodes :
        SamePath(a, b) => ~(task[a] \in InSession /\ task[b] \in InSession)

\* the call listed first was turned away while the session of the call
\* listed after it, which was first at the lock, fetches its ranges
C1_Witness ==
    \E a \in Nodes, b \in Nodes :
        SamePath(a, b) /\ a < b /\ task[a] = "skipped" /\ task[b] = "fetch"

\* C2 as claimed: two dispatches for one destination path result in exactly
\* one download_drive_item execution; the other call returns having done no
\* I/O against the path and having appended no outcome.
C2_ExactlyOneExecution ==
    \A a \in Nodes, b \in Nodes :
        (SamePath(a, b) /\ task[a] \in Finished /\ task[b] \in Finished) =>
            \/ (task[a] = "ended" /\ task[b] = "skipped" /\ outcomes[b] = <<>>)
            \/ (task[b] = "ended" /\ task[a] = "skipped" /\ outcomes[a] = <<>>)

\* C2 as amended: a call that finds the path in _active_downloads returns
\* without a session and without an outcome; a call that does not find it
\* runs a session; so two dispatches for one path result in one execution
\* when the second call comes while the first holds the path, and in two,
\* one after the other, when it comes after the path was released.
C2_DuplicateDispatch ==
    /\ \A c \in Nodes :
        (IsFile(c) /\ task[c] \in Finished) =>
            /\ saw_active[c] => (task[c] = "skipped" /\ outcomes[c] = <<>>)
            /\ ~saw_active[c] => task[c] = "ended"
    /\ \A a \in Nodes, b \in Nodes :
        (SamePath(a, b) /\ task[a] \in Finished /\ task[b] \in Finished) =>
            /\ task[a] = "ended" \/ task[b] = "ended"
            /\ (task[a] = "skipped" \/ task[b] = "skipped") <=> (saw_active[a] \/ saw_active[b])

\* both calls have returned: one ran its session and recorded an outcome, the
\* other had found the path active
C2_Witness ==
    \E a \in Nodes, b \in Nodes :
        /\ SamePath(a, b)
        /\ task[a] = "ended" /\ Len(outcomes[a]) = 1
        /\ task[b] = "skipped" /\ saw_active[b]

\* C6 (partial failure): a directory call that dispatched its children has
\* returned without an exception and every child other than a failing one
\* was dispatched and processed to its end.
C6_SiblingsProcessed ==
    \A d \in Nodes :
        task[d] \in {"joined", "aborted"} =>
            \A c \in Children(d) : c # tree.bad => task[c] \in Finished

RECURSIVE Descendants(_)
Descendants(d) ==
    Children(d) \cup UNION {Descendants(c) : c \in Children(d)}

\* C7 (depth-completeness): once the call for a directory has returned, no
\* task dispatched for a child or a descendant is unfinished, no session of
\* the subtree is running, and no outcome of the subtree is appended later.
C7_DepthComplete ==
    /\ [](\A d \in Nodes :
            task[d] \in Finished =>
                \A c \in Descendants(d) : task[c] \in Finished \cup {"none"})
    /\ [][\A d \in Nodes :
            task[d] \in Finished =>
                \A c \in Descendants(d) :
                    /\ task'[c] = task[c]
                    /\ outcomes'[c] = outcomes[c]
                    /\ \A i \in (Len(download_results) + 1)..Len(download_results') :
                            download_results'[i].path # PathOf(c)]_vars

\* the root call returned after sessions two levels down recorded outcomes
C7_Witness ==
    /\ task[1] = "joined"
    /\ \E c \in Nodes :
        /\ tree.parent[c] > 1
        /\ task[c] = "ended"
        /\ Len(outcomes[c]) >= 1
        /\ task[tree.parent[c]] = "joined"

\* C8 (bounded concurrency): the number of download_drive_item executions in
\* progress never exceeds max_workers.
C8_BoundedConcurrency ==
    Cardinality({c \in Nodes : task[c] \in InSession}) <= max_workers

\* C9: a download() run whose root resolved ends by writing the run report
\* (a report file that cannot be opened for a reason of its own, a
\* directory of its name or a missing permission, is outside the claim).
C9_ReportWritten ==
    main_pc \notin {"walk", "unwritable"} => main_pc = "reported"

(***************************************************************************)
(* C11: normal form of the plan                                            *)
(***************************************************************************)
\* sorted by start, end >= start, and a gap of at least one byte between
\* consecutive ranges
NormalForm(rs) ==
    /\ \A i \in 1..Len(rs) : rs[i][2] >= rs[i][1]
    /\ \A i \in 1..(Len(rs) - 1) : rs[i + 1][1] > rs[i][2] + 1

\* C11 (DiffPlan normal form): every plan find_changed_chunks returns is
\* sorted ascending by start, has end >= start in each range, has
\* next.start > prev.end + 1 for consecutive ranges, and is a fixed point of
\* the merge step.
C11_PlanNormalForm ==
    d_pc = "diffed" =>
        /\ NormalForm(changed_ranges)
        /\ MergeRanges(changed_ranges) = changed_ranges

\* the scan found adjacent windows and the merge step coalesced them
C11_Witness ==
    /\ d_pc = "diffed"
    /\ changed_ranges # <<>>
    /\ Len(ScanLoop(d_response.content, content_length(d_response), d_response.chunk_size,
                    existing_chunks, 0, <<>>)) > Len(changed_ranges)

(***************************************************************************)
(* C12: fresh download                                                     *)
(***************************************************************************)
\* the destination was absent or empty when the session began and the
\* remote declares a size S > 0
Fresh ==
    /\ ~pre_local.exists \/ Len(pre_local.data) = 0
    /\ content_length(item) > 0

\* line 177 has been executed: find_changed_chunks has returned the plan
PlanComputed ==
    /\ item.has_name
    /\ pc \notin {"start", "open", "raised"}
    /\ fail_cause \notin {"open", "diff"}

\* every _stream_download_range call of the plan has returned
AllFetched == item.has_name /\ plan # <<>> /\ fetched = plan

\* C12 (fresh download): for an absent or empty destination and a remote
\* size S > 0 the plan is the single range (0, S-1); if every range fetch
\* succeeds the session ends completed with changes = 1, downloaded = S and
\* a destination of exactly S bytes.  In general a completed outcome has
\* downloaded = sum of the plan's range sizes and changes = number of plan
\* ranges.
C12_FreshDownload ==
    /\ (Fresh /\ PlanComputed) =>
            plan = << <<0, content_length(item) - 1>> >>
    /\ (Fresh /\ AllFetched /\ pc \in {"returned", "raised"}) =>
            /\ ret = "true"
            /\ Len(download_results) = 1
            /\ download_results[1].status = "completed"
            /\ download_results[1].changes = 1
            /\ download_results[1].downloaded = content_length(item)
            /\ local_file.exists
            /\ Len(local_file.data) = content_length(item)
    /\ \A i \in 1..Len(download_results) :
            download_results[i].status = "completed" =>
                /\ download_results[i].downloaded = SumRanges(plan)
                /\ download_results[i].changes = Len(plan)

\* the same for the sessions in which no step raised: a fetch that returned
\* after a body shorter than its range leaves a destination of fewer than S
\* bytes under a completed outcome, or an empty staging file that line 226
\* refuses with no outcome
C12_FreshDownloadNoFault ==
    (Fresh /\ AllFetched /\ pc = "returned" /\ fail_cause = "none") =>
        /\ ret = "true"
        /\ Len(download_results) = 1
        /\ download_results[1].status = "completed"
        /\ Len(local_file.data) = content_length(item)

\* what does hold: when every response body had the length of its range and
\* no step raised, the fresh download ends as the claim says
C12_FreshDownloadExact ==
    (Fresh /\ AllFetched /\ all_exact /\ pc = "returned" /\ fail_cause = "none") =>
        /\ ret = "true"
        /\ Len(download_results) = 1
        /\ download_results[1].status = "completed"
        /\ download_results[1].changes = 1
        /\ download_results[1].downloaded = content_length(item)
        /\ local_file = File(item.content)

\* a fresh download over an empty destination has been recorded completed
\* with a destination shorter than the remote size
C12_ShortCommit ==
    /\ Fresh
    /\ pre_local.exists
    /\ AllFetched
    /\ pc = "returned"
    /\ ret = "true"
    /\ Len(download_results) = 1
    /\ download_results[1].status = "completed"
    /\ download_results[1].downloaded = content_length(item)
    /\ Len(local_file.data) < content_length(item)

(***************************************************************************)
(* C13: a second session against unchanged remote content                  *)
(***************************************************************************)
\* the session has reached line 200: it makes its staging file, or has made
\* it, or has failed while or after making it
PastStaging ==
    \/ pc \in {"stage", "ranges", "save", "verify", "replace", "finish"}
    \/ fail_cause \notin NoTempPath \cup {"none"}

\* C13 (sync idempotence): after a session completed against a remote file
\* whose every range was delivered, a second session against the same
\* content computes an empty plan, creates no staging file, issues no range
\* fetch, leaves the destination unchanged, and records status completed
\* with downloaded = 0, changes = 0 and the checksum of the first session.
C13_SyncIdempotent ==
    (run = 2 /\ all_exact) =>
        /\ PlanComputed => plan = <<>>
        /\ ~PastStaging
        /\ attempts = 0
        /\ fetched = <<>>
        /\ local_file = pre_local
        /\ (pc = "returned" /\ fail_cause = "none") =>
                /\ Len(download_results) = 2
                /\ download_results[2].status = "completed"
                /\ download_results[2].downloaded = 0
                /\ download_results[2].changes = 0
                /\ download_results[2].checksum = download_results[1].checksum

(***************************************************************************)
(* C14, C15: _stream_download_range                                        *)
(***************************************************************************)
\* what does hold of C14 (retry budget) in one session: one
\* _stream_download_range call makes at most max_retries requests, each
\* after the one before it has failed; it returns at the first accepted
\* response, which is then its last request; the range failure is raised
\* exactly when max_retries requests have all failed, which is then all the
\* call still does; and when the except block returns, the session has
\* recorded one failed outcome.
C14_RetryBudget ==
    /\ attempts <= max_retries
    /\ pc = "ranges" => attempts = retries + (IF resp.open THEN 1 ELSE 0)
    /\ pc = "save" => attempts = retries + 1
    /\ fail_cause = "range" => (retries = max_retries /\ attempts = max_retries)
    /\ retries = max_retries => (fail_cause = "range" \/ (pc = "ranges" /\ ~resp.open))
    /\ (fail_cause = "range" /\ pc = "returned") =>
            /\ ret = "false"
            /\ Len(download_results) = 1
            /\ download_results[1].status = "failed"

\* 2^1 + ... + 2^n
RECURSIVE BackoffTotal(_)
BackoffTotal(n) == IF n = 0 THEN 0 ELSE Pow2(n) + BackoffTotal(n - 1)

\* C15 (exponential backoff): the wait after failed attempt n is 2^n and
\* waits occur only between two attempts, so a call whose max_retries
\* attempts all failed has waited 2^1 + ... + 2^(max_retries - 1) when it
\* reports the failure.
C15_Backoff ==
    /\ fail_cause # "range" => waited = BackoffTotal(retries)
    /\ fail_cause = "range" => waited = BackoffTotal(max_retries - 1)

(***************************************************************************)
(* C16: order of the ranges and of the checkpoints                         *)
(***************************************************************************)
\* C16 (ordered application, monotonic checkpoint): the ranges are fetched
\* in the order of the plan, strictly ascending by start; each checkpoint is
\* saved after the fetch of its range returned, with value range.end + 1;
\* the values saved in one session are strictly increasing.
C16_OrderedCheckpoints ==
    /\ Len(fetched) <= Len(plan)
    /\ \A i \in 1..Len(fetched) : fetched[i] = plan[i]
    /\ \A i \in 1..(Len(fetched) - 1) : fetched[i][1] < fetched[i + 1][1]
    /\ Len(saved) <= Len(fetched)
    /\ Len(fetched) <= Len(saved) + 1
    /\ \A i \in 1..Len(saved) : saved[i] = fetched[i][2] + 1
    /\ \A i \in 1..(Len(saved) - 1) : saved[i] < saved[i + 1]

\* three ranges were fetched and three checkpoints saved
C16_Witness ==
    /\ Len(saved) = 3
    /\ Len(fetched) = 3
    /\ pc = "verify"

(***************************************************************************)
(* C17, C18, C19: the sidecar and the staging file                         *)
(***************************************************************************)
\* the sidecar is removed only by the step that ends a session completed,
\* which in a committing session comes after the rename
C17_RemovedOnlyOnCompletion ==
    [][(status_file.kind # "absent" /\ status_file'.kind = "absent") =>
            /\ pc' = "returned"
            /\ ret' = "true"
            /\ download_results' # download_results
            /\ download_results'[Len(download_results')].status = "completed"
            /\ plan # <<>> =>
                /\ pc = "finish"
                /\ ~temp_file.exists
                /\ local_file.exists]_vars

\* C17 (checkpoint lifecycle): the sidecar is removed only by the step that
\* ends a session completed, which in a committing session comes after the
\* rename; after a completed session no sidecar exists; after a session that
\* ended otherwise a sidecar is still there if the session found one or
\* wrote one.
C17_CheckpointLifecycle ==
    /\ []((pc = "returned" /\ ret = "true") => status_file = NoStatus)
    /\ []((pc = "returned" /\ ret # "true" /\ status_at_fail.kind # "absent") =>
            status_file.kind # "absent")
    /\ C17_RemovedOnlyOnCompletion

\* what does hold of a completed session: the sidecar is gone, or it is one
\* that tracker.cleanup found and could not unlink
C17_NoSidecarUnlessUnlinkFails ==
    [][(pc' = "returned" /\ ret' = "true" /\ pc # "returned") =>
            status_file' \in {NoStatus, status_file}]_vars

\* C18 (checkpoint load tolerance): for every sidecar state, creating the
\* DownloadTracker never raises and yields the stored position when the
\* sidecar is valid and 0 otherwise.
C18_LoadTolerance ==
    /\ pc # "raised"
    /\ pc = "open" => current_position = LoadedPosition(status_file)

\* C19 (no staging file survives a session): however a download_drive_item
\* execution ended, the staging file does not exist afterwards.
C19_NoStagingSurvives ==
    pc \in {"returned", "raised"} => ~temp_file.exists

(***************************************************************************)
(* C20: outcomes of concurrent sessions                                    *)
(***************************************************************************)
\* the outcomes of status st built by the calls 1..n for the path p
RECURSIVE BuiltFor(_, _, _)
BuiltFor(p, st, n) ==
    IF n = 0 THEN 0
    ELSE (IF PathOf(n) = p
          THEN Cardinality({i \in 1..Len(outcomes[n]) : outcomes[n][i] = st}) ELSE 0)
         + BuiltFor(p, st, n - 1)

\* the outcomes built by the calls 1..n
RECURSIVE SumBuilt(_)
SumBuilt(n) == IF n = 0 THEN 0 ELSE Len(outcomes[n]) + SumBuilt(n - 1)

\* the entries of download_results of path p and status st
Entries(p, st) ==
    {i \in 1..Len(download_results) :
        download_results[i].path = p /\ download_results[i].status = st}

\* the calls whose outcome of path p and status st is built and not yet appended
AboutToAppend(p, st) == {c \in Nodes : PathOf(c) = p /\ work[c].pending = st}

\* C20 (no lost outcome updates): in every interleaving, download_results
\* holds one entry for every outcome a worker has built and appended, under
\* the path of that worker's item and with its status, the two outcomes of
\* one call included; at the end of the walk every outcome built is there,
\* and the summary has total_files = number of appends = successful + failed.
C20_NoLostOutcome ==
    /\ \A c \in Nodes, st \in {"completed", "failed"} :
        Cardinality(Entries(PathOf(c), st)) + Cardinality(AboutToAppend(PathOf(c), st))
            = BuiltFor(PathOf(c), st, tree.n)
    /\ Len(download_results) + Cardinality({c \in Nodes : work[c].pending # "none"})
            = SumBuilt(tree.n)
    /\ main_pc # "walk" =>
        /\ Len(download_results) = SumBuilt(tree.n)
        /\ report.total_files = SumBuilt(tree.n)
        /\ report.total_files = report.successful + report.failed

\* the summary of a walk with two workers holds three outcomes, two of them
\* the completed and the failed outcome of one call
C20_Witness ==
    /\ main_pc = "reported"
    /\ max_workers = 2
    /\ report.total_files >= 3
    /\ \E c \in Nodes : outcomes[c] = <<"completed", "failed">>

(***************************************************************************)
(* C21: membership of _active_downloads                                    *)
(***************************************************************************)
\* the calls between the add of line 297 and the discard of line 314: their
\* download_drive_item execution is running or has just returned or raised
InProgress == {c \in Nodes : task[c] \in InSession \cup {"release"}}

\* C21 (ActivePathSet membership): a path is in _active_downloads exactly
\* while a call holds it for its download_drive_item execution, from the add
\* under the lock to the discard of the finally clause, however the session
\* ended; a call turned away as duplicate leaves the set as it is; once every
\* call has returned the set is empty.
C21_ActivePathSet ==
    /\ active_downloads = {PathOf(c) : c \in InProgress}
    /\ \A a \in InProgress, b \in InProgress : PathOf(a) = PathOf(b) => a = b
    /\ task[1] \in Finished => active_downloads = {}

\* the walk is over: one call was turned away as duplicate, another session
\* ended without an outcome (False returned or an exception), the set is empty
C21_Witness ==
    /\ task[1] \in Finished
    /\ active_downloads = {}
    /\ \E c \in Nodes : task[c] = "skipped"
    /\ \E c \in Nodes : task[c] = "ended" /\ outcomes[c] = <<>>

(***************************************************************************)
(* C22: what precedes the rename                                           *)
(***************************************************************************)
\* the positions that can follow a position of download_drive_item
NextPc(p) ==
    CASE p = "start"     -> {"open", "returned", "raised"}
      [] p = "open"      -> {"unchanged", "stage", "except"}
      [] p = "unchanged" -> {"returned", "except"}
      [] p = "stage"     -> {"ranges", "except"}
      [] p = "ranges"    -> {"ranges", "save", "except"}
      [] p = "save"      -> {"ranges", "verify", "except"}
      [] p = "verify"    -> {"replace", "returned", "except"}
      [] p = "replace"   -> {"finish", "except"}
      [] p = "finish"    -> {"returned", "except"}
      [] p = "except"    -> {"returned", "raised"}
      [] OTHER           -> {}

\* C22 (commit precondition): the rename is reached only through open, diff,
\* staging, the fetch of every range of the plan and the verification, in
\* that order, with a staging file that exists and is non-empty when
\* total_size > 0; a session with an empty plan never creates a staging file
\* (no step of it writes to the staging path, whatever an earlier session
\* left there) and never renames.
C22_CommitPrecondition ==
    /\ [](pc \in {"verify", "replace", "finish"} =>
            /\ plan # <<>>
            /\ fetched = plan
            /\ Len(saved) = Len(plan))
    /\ [](pc = "replace" =>
            /\ temp_file.exists
            /\ total_size > 0 => Len(temp_file.data) > 0)
    /\ []((PlanComputed /\ plan = <<>>) =>
            /\ local_file = pre_local
            /\ pc \in {"unchanged", "except", "returned"})
    /\ [][(PlanComputed /\ plan = <<>>) =>
            (temp_file' = temp_file /\ local_file' = local_file)]_vars
    /\ [][(pc \in {"start", "open"}) => (temp_file' = temp_file)]_vars
    /\ [][pc' # pc => pc' \in NextPc(pc)]_vars
    /\ [][local_file' # local_file =>
            (pc = "replace" /\ pc' = "finish" /\ fetched = plan)]_vars

\* the rename has happened after two ranges were fetched
C22_Witness ==
    /\ pc = "finish"
    /\ Len(plan) = 2
    /\ fetched = plan
    /\ ~temp_file.exists

(***************************************************************************)
(* C24: the read cursor of the remote byte source                          *)
(***************************************************************************)
\* C24 (cursor restoration): find_changed_chunks leaves the cursor of
\* response.raw where it was when the call began, for an empty and for a
\* non-empty local map, whatever the number of windows scanned.  The cursor
\* is not written by IndexLocal, so d_response.cursor in a state before the
\* diff is the cursor of the call's start.
C24_CursorRestored ==
    [][d_pc' = "diffed" =>
        /\ d_response'.cursor = d_response.cursor
        /\ d_response'.content = d_response.content]_vars

\* the scan of a non-empty map read two windows or more and ended away from
\* the cursor the call began with, which was not the start of the stream
C24_Witness ==
    /\ d_pc = "diffed"
    /\ DOMAIN existing_chunks # {}
    /\ d_response.cursor > 0
    /\ content_length(d_response) > d_response.chunk_size
    /\ ScanCursor(d_response.content, content_length(d_response), d_response.chunk_size, 0)
            # d_response.cursor

(***************************************************************************)
(* C25, C26, C27, C28: the destination after a recorded outcome            *)
(***************************************************************************)
\* the session has ended and the outcome it recorded has the given status
Recorded(status) ==
    /\ pc = "returned"
    /\ download_results # <<>>
    /\ download_results[Len(download_results)].status = status

\* C25 (content equivalence after success): when a session records
\* completed and every accepted response carried the bytes of its range, the
\* destination's content equals the remote content.
C25_ContentEquivalent ==
    (Recorded("completed") /\ all_exact) => local_file.data = item.content

\* C26 (size equivalence after success): when a session records completed
\* (here: with every accepted response carrying the bytes of its range, and
\* a destination that exists), the destination's length equals the declared
\* size of the remote file.
C26_SizeEquivalent ==
    (Recorded("completed") /\ all_exact /\ local_file.exists) =>
        Len(local_file.data) = total_size

\* C27 (completed implies present): when a session records completed, the
\* destination file exists.
C27_CompletedPresent ==
    Recorded("completed") => local_file.exists

\* C28 (failed implies untouched): when a session records failed, at
\* whatever step the error occurred, the destination is as it was before the
\* session.
C28_FailedUntouched ==
    Recorded("failed") => local_file = pre_local

(***************************************************************************)
(* C29: what one _stream_download_range call writes                        *)
(***************************************************************************)
\* the staging file as lines 204-210 create it
Staged ==
    IF pre_local.exists THEN pre_local.data ELSE ZeroFilled(total_size)

\* C29 (range write confinement and completeness), for the first range of
\* the plan: when _stream_download_range has returned for (start, end), the
\* staging file is the staged content with exactly the bytes start..end
\* replaced by the remote bytes of the range, whatever accepted response and
\* whatever partially written failed attempts preceded.  The staging file is
\* read as out_file holds it, the bytes still in its buffer included.
C29_RangeWriteConfined ==
    (pc = "save" /\ range_idx = 1) =>
        Flushed(temp_file.data, out_buf) =
            WriteAt(Staged, CurStart, RangeBody(item.content, CurStart, CurEnd))

(***************************************************************************)
(* C30: termination of the walk                                            *)
(***************************************************************************)
\* C30 (walk termination): for every tree and every max_workers >= 1 the
\* root process_item_parallel call eventually returns, and then download()
\* goes on to the report; a directory call waiting for its children does not
\* keep them from running.
C30_WalkTerminates ==
    <>(task[1] \in Finished /\ main_pc # "walk")

\* with one worker per executor, a directory two levels down has been
\* joined after its child ran, and the root call has returned
C30_Witness ==
    /\ max_workers = 1
    /\ task[1] = "joined"
    /\ \E c \in Nodes :
        /\ tree.parent[c] > 1
        /\ task[c] \in {"ended", "joined", "returned"}
        /\ task[tree.parent[c]] = "joined"

(***************************************************************************)
(* C23: the sidecar does not steer the session                             *)
(***************************************************************************)
\* C23 (checkpoint is metadata only): a run that loaded a position from the
\* sidecar and a run from the same destination and remote content with no
\* sidecar, under the same behaviour of the remote and the filesystem,
\* compute the same plan, fetch the same ranges in the same order, and end
\* with the same destination content, return value and outcome; no range of
\* the plan is skipped because of the loaded position.
C23_CheckpointMetadataOnly ==
    /\ (run = 2 /\ pc \in {"returned", "raised"}) => RunResult = first
    /\ (run = 2 /\ PlanComputed) => plan = first.plan
    /\ (run = 2) => \A i \in 1..Len(fetched) :
                        i <= Len(first.fetched) /\ fetched[i] = first.fetched[i]

\* both runs have committed a two-range plan; the first had loaded a position
\* past the first range
C23_Witness ==
    /\ run = 2
    /\ pc = "returned"
    /\ ret = "true"
    /\ Len(first.plan) = 2
    /\ first.fetched = first.plan
    /\ local_file # pre_local
    /\ scenario.fault = "ok"

(***************************************************************************)
(* C14: a range that fails and the other sessions                          *)
(***************************************************************************)
\* C14 (retry budget, as claimed for the walk): when the requests of a range
\* have failed max_retries times and the session is in its except block,
\* which unlinks the session's staging file (lines 268-270), that file is
\* no file of another session in progress: the failure of the range fails
\* its own file and touches no other in-flight session.
C14_RangeFailureConfined ==
    \A a, b \in Nodes :
        (/\ a # b
         /\ task[a] = "except" /\ work[a].retries = max_retries
         /\ task[b] \in InSession) =>
            temp_path(a) \notin SessionFiles(b)

(***************************************************************************)
(* C31: two sessions running concurrently for two different destination    *)
(* paths never read or write a common file: the destination, the staging   *)
(* file (name + ".temp") and the sidecar (name + ".download") of one are   *)
(* none of the destination, staging file or sidecar of the other.          *)
(***************************************************************************)
C31_NoSharedFile ==
    \A a, b \in Nodes :
        (/\ a # b
         /\ task[a] \in InSession /\ task[b] \in InSession
         /\ PathOf(a) # PathOf(b)) =>
            SessionFiles(a) \cap SessionFiles(b) = {}

\* what does hold: the sessions of two items share no file when neither
\* name is the other followed by ".temp" or ".download"
C31_NoSharedFileUnlessSuffixed ==
    (tree.dup = 0 \/ tree.rel = "same") => C31_NoSharedFile

\* two sessions of different paths run at once in a tree with no such names
C31_ConcurrentSessions ==
    /\ tree.dup = 0
    /\ \E a, b \in Nodes : /\ a # b
                           /\ task[a] \in InSession /\ task[b] \in InSession
                           /\ PathOf(a) # PathOf(b)

====
